---- MODULE Spec2Model ----
(***************************************************************************)
(* TableTurner: SQL dump -> per-table CSV exporter (SqlParserLogic.py) and *)
(* the row repair pass (SqlRepair.py).                                     *)
(*                                                                         *)
(* A Python str is a sequence of one-character strings, a row is a         *)
(* sequence of fields (strs), a text file is a sequence of lines, a CSV    *)
(* file is the sequence of records handed to csv.writer.                   *)
(***************************************************************************)
EXTENDS Integers, Sequences, FiniteSets, TLC

VARIABLES
    file,              \* build_index: the raw lines the file iterator has yielded so far
    statement_buffer,  \* build_index: local statement_buffer
    index,             \* SqlParser.index, a dict in insertion order
    pc,                \* "indexing" while build_index runs, "indexed" after it returned
    tables,            \* the list build_index returned
    fs,                \* the output directory: path -> file content
    export,            \* locals of the last process_table call
    recovery,          \* locals of the last run_recovery call
    arg,               \* argument of the function under test (function specifications)
    ret                \* its result, or its running state

vars == <<file, statement_buffer, index, pc, tables, fs, export, recovery, arg, ret>>

(***************************************************************************)
(* Characters and strings                                                  *)
(***************************************************************************)
Upper == <<"A","B","C","D","E","F","G","H","I","J","K","L","M",
           "N","O","P","Q","R","S","T","U","V","W","X","Y","Z">>

LowerCase == <<"a","b","c","d","e","f","g","h","i","j","k","l","m",
               "n","o","p","q","r","s","t","u","v","w","x","y","z">>

Digits == {"0","1","2","3","4","5","6","7","8","9"}

UpperSet == {Upper[i] : i \in 1..26}

LowerMap == [c \in UpperSet |-> LowerCase[CHOOSE i \in 1..26 : Upper[i] = c]]

\* str.lower() on one character; also how re.IGNORECASE compares characters
lower(c) == IF c \in UpperSet THEN LowerMap[c] ELSE c

\* str.lower()
lower_str(s) == [i \in 1..Len(s) |-> lower(s[i])]

WordChars == UpperSet \cup {LowerCase[i] : i \in 1..26} \cup Digits \cup {"_"}

\* regex \w
IsWord(c) == c \in WordChars

\* regex \s, and what str.strip() removes
IsSpace(c) == c \in {" ", "\n", "\t", "\r"}

\* the backquote character, which a TLA+ string literal cannot hold
BackQuote == "BACKQUOTE"

\* the optional quote (backquote, ' or ") around a table or column name
IsNameQuote(c) == c \in {BackQuote, "'", "\""}

RECURSIVE lstrip(_)
lstrip(s) == IF s # <<>> /\ IsSpace(Head(s)) THEN lstrip(Tail(s)) ELSE s

RECURSIVE rstrip(_)
rstrip(s) ==
    IF s # <<>> /\ IsSpace(s[Len(s)]) THEN rstrip(SubSeq(s, 1, Len(s) - 1)) ELSE s

\* str.strip()
strip(s) == rstrip(lstrip(s))

\* str.endswith(suffix)
endswith(s, suffix) ==
    /\ Len(s) >= Len(suffix)
    /\ SubSeq(s, Len(s) - Len(suffix) + 1, Len(s)) = suffix

\* str.startswith(prefix)
startswith(s, prefix) ==
    /\ Len(s) >= Len(prefix)
    /\ SubSeq(s, 1, Len(prefix)) = prefix

\* sep.join(parts)
RECURSIVE join(_, _)
join(sep, parts) ==
    IF parts = <<>> THEN <<>>
    ELSE IF Len(parts) = 1 THEN parts[1]
    ELSE parts[1] \o sep \o join(sep, Tail(parts))

\* the concatenation of a sequence of sequences
RECURSIVE Flatten(_)
Flatten(seqs) == IF seqs = <<>> THEN <<>> ELSE Head(seqs) \o Flatten(Tail(seqs))

\* the literal lit matches s at position i (re.IGNORECASE)
MatchAt(s, i, lit) ==
    /\ i >= 1
    /\ i + Len(lit) - 1 <= Len(s)
    /\ \A k \in 1..Len(lit) : lower(s[i + k - 1]) = lower(lit[k])

\* end of the longest run of \w characters starting at i (i-1 when there is none)
RECURSIVE WordEnd(_, _)
WordEnd(s, i) ==
    IF i <= Len(s) /\ IsWord(s[i]) THEN WordEnd(s, i + 1) ELSE i - 1

\* str.find(lit, from) over positions from..Len(s), case-insensitively; 0 when absent
Find(s, lit, from) ==
    LET hits == {i \in from..Len(s) : MatchAt(s, i, lit)}
    IN  IF hits = {} THEN 0 ELSE CHOOSE i \in hits : \A j \in hits : i <= j

Option(v) == [some |-> TRUE, val |-> v]

None == [some |-> FALSE, val |-> <<>>]

(***************************************************************************)
(* SqlParser._initialize_constants: the regular expressions                *)
(***************************************************************************)
KwCreateTable == <<"C","R","E","A","T","E"," ","T","A","B","L","E"," ">>

KwInsertInto == <<"I","N","S","E","R","T"," ","I","N","T","O"," ">>

KwValues == <<"V","A","L","U","E","S">>

\* re.search(kw + quote? (\w+) quote?).group(1): the leftmost position where the
\* keyword is followed by an optional quote and at least one \w character
NameSearch(s, kw) ==
    LET NameStart(i) ==
            IF i + Len(kw) <= Len(s) /\ IsNameQuote(s[i + Len(kw)])
            THEN i + Len(kw) + 1 ELSE i + Len(kw)
        hits == {i \in 1..Len(s) :
                    /\ MatchAt(s, i, kw)
                    /\ WordEnd(s, NameStart(i)) >= NameStart(i)}
    IN  IF hits = {} THEN None
        ELSE LET i == CHOOSE h \in hits : \A j \in hits : h <= j
             IN  Option(SubSeq(s, NameStart(i), WordEnd(s, NameStart(i))))

create_table_regex(s) == NameSearch(s, KwCreateTable)

insert_regex(s) == NameSearch(s, KwInsertInto)

(***************************************************************************)
(* SqlParser.build_index                                                   *)
(***************************************************************************)
HasTable(idx, table_name) == \E i \in 1..Len(idx) : idx[i].name = table_name

Entry(idx, table_name) ==
    idx[CHOOSE i \in 1..Len(idx) : idx[i].name = table_name]

\* a variant that compares table names without regard to case
ensure_table_ignoring_case(idx, table_name) ==
    IF \E i \in 1..Len(idx) : lower_str(idx[i].name) = lower_str(table_name) THEN idx
    ELSE Append(idx, [name |-> table_name, create |-> <<>>, inserts |-> <<>>])

\* _ensure_table_in_index: a new key goes to the end of the dict
ensure_table_in_index(idx, table_name) ==
    IF HasTable(idx, table_name) THEN idx
    ELSE Append(idx, [name |-> table_name, create |-> <<>>, inserts |-> <<>>])

SetCreate(idx, table_name, stmt) ==
    [i \in 1..Len(idx) |->
        IF idx[i].name = table_name THEN [idx[i] EXCEPT !.create = stmt] ELSE idx[i]]

AppendInsert(idx, table_name, stmt) ==
    [i \in 1..Len(idx) |->
        IF idx[i].name = table_name
        THEN [idx[i] EXCEPT !.inserts = Append(@, stmt)] ELSE idx[i]]

\* a variant that tests the two patterns independently of each other
index_statement_both(idx, full_statement) ==
    LET create_match == create_table_regex(full_statement)
        insert_match == insert_regex(full_statement)
        created == IF create_match.some
                   THEN SetCreate(ensure_table_in_index(idx, create_match.val),
                                  create_match.val, full_statement)
                   ELSE idx
    IN  IF insert_match.some
        THEN AppendInsert(ensure_table_in_index(created, insert_match.val),
                          insert_match.val, full_statement)
        ELSE created

\* lines 48-58: classify one complete statement
index_statement(idx, full_statement) ==
    LET create_match == create_table_regex(full_statement)
        insert_match == insert_regex(full_statement)
    IN  IF create_match.some
        THEN SetCreate(ensure_table_in_index(idx, create_match.val),
                       create_match.val, full_statement)
        ELSE IF insert_match.some
        THEN AppendInsert(ensure_table_in_index(idx, insert_match.val),
                          insert_match.val, full_statement)
        ELSE idx

(***************************************************************************)
(* csv.reader([line], escapechar='\\'): the excel dialect (delimiter ',',  *)
(* quotechar '"', doublequote, not strict, no skipinitialspace), as the    *)
(* reader's state machine runs it over one line and the end of the input.  *)
(***************************************************************************)
EOL == "EOL"

CsvInit == [state |-> "START_RECORD", fields |-> <<>>, field |-> <<>>, error |-> FALSE]

CsvSaveField(st, next) ==
    [st EXCEPT !.fields = Append(@, st.field), !.field = <<>>, !.state = next]

CsvAddChar(st, c, next) ==
    [st EXCEPT !.field = Append(@, c), !.state = next]

CsvAfterLine(c) == IF c = EOL THEN "START_RECORD" ELSE "EAT_CRNL"

CsvInField(st, c) ==
    IF c \in {"\n", "\r", EOL} THEN CsvSaveField(st, CsvAfterLine(c))
    ELSE IF c = "\\" THEN [st EXCEPT !.state = "ESCAPED_CHAR"]
    ELSE IF c = "," THEN CsvSaveField(st, "START_FIELD")
    ELSE CsvAddChar(st, c, "IN_FIELD")

CsvStartField(st, c) ==
    IF c \in {"\n", "\r", EOL} THEN CsvSaveField(st, CsvAfterLine(c))
    ELSE IF c = "\"" THEN [st EXCEPT !.state = "IN_QUOTED_FIELD"]
    ELSE IF c = "\\" THEN [st EXCEPT !.state = "ESCAPED_CHAR"]
    ELSE IF c = "," THEN CsvSaveField(st, "START_FIELD")
    ELSE CsvAddChar(st, c, "IN_FIELD")

\* parse_process_char
CsvProcessChar(st, c) ==
    IF st.error THEN st
    ELSE CASE st.state = "START_RECORD" ->
                IF c = EOL THEN st
                ELSE IF c \in {"\n", "\r"} THEN [st EXCEPT !.state = "EAT_CRNL"]
                ELSE CsvStartField(st, c)
           [] st.state = "START_FIELD" -> CsvStartField(st, c)
           [] st.state = "ESCAPED_CHAR" ->
                IF c \in {"\n", "\r"} THEN CsvAddChar(st, c, "AFTER_ESCAPED_CRNL")
                ELSE CsvAddChar(st, IF c = EOL THEN "\n" ELSE c, "IN_FIELD")
           [] st.state = "AFTER_ESCAPED_CRNL" ->
                IF c = EOL THEN st ELSE CsvInField(st, c)
           [] st.state = "IN_FIELD" -> CsvInField(st, c)
           [] st.state = "IN_QUOTED_FIELD" ->
                IF c = EOL THEN st
                ELSE IF c = "\\" THEN [st EXCEPT !.state = "ESCAPE_IN_QUOTED_FIELD"]
                ELSE IF c = "\"" THEN [st EXCEPT !.state = "QUOTE_IN_QUOTED_FIELD"]
                ELSE CsvAddChar(st, c, "IN_QUOTED_FIELD")
           [] st.state = "ESCAPE_IN_QUOTED_FIELD" ->
                CsvAddChar(st, IF c = EOL THEN "\n" ELSE c, "IN_QUOTED_FIELD")
           [] st.state = "QUOTE_IN_QUOTED_FIELD" ->
                IF c = "\"" THEN CsvAddChar(st, c, "IN_QUOTED_FIELD")
                ELSE IF c = "," THEN CsvSaveField(st, "START_FIELD")
                ELSE IF c \in {"\n", "\r", EOL} THEN CsvSaveField(st, CsvAfterLine(c))
                ELSE CsvAddChar(st, c, "IN_FIELD")
           [] st.state = "EAT_CRNL" ->
                IF c \in {"\n", "\r"} THEN st
                ELSE IF c = EOL THEN [st EXCEPT !.state = "START_RECORD"]
                ELSE [st EXCEPT !.error = TRUE]

RECURSIVE CsvRun(_, _)
CsvRun(st, line) ==
    IF line = <<>> THEN st ELSE CsvRun(CsvProcessChar(st, Head(line)), Tail(line))

\* next(csv.reader([line], escapechar='\\')): the record, or None when it raises
\* (csv.Error on a line break inside the line, StopIteration when the input ends
\* in a state that holds no field)
csv_reader_next(line) ==
    LET st == CsvRun(CsvInit, Append(line, EOL))
    IN  IF st.error THEN None
        ELSE IF st.state = "START_RECORD" THEN Option(st.fields)
        ELSE IF st.field # <<>> \/ st.state = "IN_QUOTED_FIELD"
        THEN Option(Append(st.fields, st.field))
        ELSE None

\* str.split(',')
RECURSIVE split_comma(_)
split_comma(s) ==
    LET hits == {i \in 1..Len(s) : s[i] = ","}
    IN  IF hits = {} THEN <<s>>
        ELSE LET i == CHOOSE h \in hits : \A j \in hits : h <= j
             IN  <<SubSeq(s, 1, i - 1)>> \o split_comma(SubSeq(s, i + 1, Len(s)))

\* lines 114-119: split a closed group's buffer into fields
split_fields(char_buffer) ==
    LET parsed_fields == csv_reader_next(strip(char_buffer))
    IN  IF parsed_fields.some THEN parsed_fields.val
        ELSE split_comma(strip(char_buffer))

(***************************************************************************)
(* SqlParser._parse_values_string                                          *)
(***************************************************************************)
ScanInit == [rows |-> <<>>, in_string |-> FALSE, paren_level |-> 0, char_buffer |-> <<>>]

\* a variant without the escape test: every quote toggles in_string
toggles_every_quote(st, char) == char = "'"

\* line 101: a quote toggles in_string unless the last buffered character is a backslash
toggles_quote(st, char) ==
    char = "'" /\ (Len(st.char_buffer) = 0 \/ st.char_buffer[Len(st.char_buffer)] # "\\")

\* lines 123-124
buffer_char(st, char) ==
    IF st.paren_level > 0 THEN [st EXCEPT !.char_buffer = Append(@, char)] ELSE st

\* a variant that ends a row at every closing parenthesis outside a quoted literal
scan_char_closing_any(st, char) ==
    LET s1 == [st EXCEPT !.in_string = IF toggles_quote(st, char) THEN ~@ ELSE @]
    IN  IF ~s1.in_string /\ char = "("
        THEN LET s2 == [s1 EXCEPT !.paren_level = @ + 1]
             IN  IF s2.paren_level = 1
                 THEN [s2 EXCEPT !.char_buffer = <<>>]
                 ELSE buffer_char(s2, char)
        ELSE IF ~s1.in_string /\ char = ")"
        THEN [s1 EXCEPT !.paren_level = @ - 1,
                        !.rows = Append(@, split_fields(s1.char_buffer)),
                        !.char_buffer = <<>>]
        ELSE buffer_char(s1, char)

\* lines 101-124: the loop body for one character
scan_char(st, char) ==
    LET s1 == [st EXCEPT !.in_string = IF toggles_quote(st, char) THEN ~@ ELSE @]
    IN  IF ~s1.in_string /\ char = "("
        THEN LET s2 == [s1 EXCEPT !.paren_level = @ + 1]
             IN  IF s2.paren_level = 1
                 THEN [s2 EXCEPT !.char_buffer = <<>>]
                 ELSE buffer_char(s2, char)
        ELSE IF ~s1.in_string /\ char = ")"
        THEN LET s2 == [s1 EXCEPT !.paren_level = @ - 1]
             IN  IF s2.paren_level = 0
                 THEN [s2 EXCEPT !.rows = Append(@, split_fields(s1.char_buffer)),
                                 !.char_buffer = <<>>]
                 ELSE buffer_char(s2, char)
        ELSE buffer_char(s1, char)

RECURSIVE scan(_, _)
scan(st, values_str) ==
    IF values_str = <<>> THEN st
    ELSE scan(scan_char(st, Head(values_str)), Tail(values_str))

parse_values_string(values_str) == scan(ScanInit, values_str).rows

(***************************************************************************)
(* SqlParser._get_headers_from_create_stmt                                 *)
(***************************************************************************)
First(S) == CHOOSE i \in S : \A j \in S : i <= j

Last(S) == CHOOSE i \in S : \A j \in S : i >= j

Positions(s, c) == {i \in 1..Len(s) : s[i] = c}

\* line 77: re.search(r'\((.*)\)', DOTALL).group(1): from the first '(' to the last ')'
outer_parens(s) ==
    LET opens == Positions(s, "(")
        closes == Positions(s, ")")
    IN  IF opens # {} /\ closes # {} /\ First(opens) < Last(closes)
        THEN Option(SubSeq(s, First(opens) + 1, Last(closes) - 1))
        ELSE None

\* line 80: re.sub(r'\([^)]*\)', '', s): each '(' up to the next ')' is removed
RECURSIVE remove_parens(_)
remove_parens(s) ==
    LET opens == Positions(s, "(")
    IN  IF opens = {} THEN s
        ELSE LET i == First(opens)
                 closes == {j \in Positions(s, ")") : j > i}
             IN  IF closes = {} THEN s
                 ELSE SubSeq(s, 1, i - 1)
                        \o remove_parens(SubSeq(s, First(closes) + 1, Len(s)))

\* str.split(c) on a one-character separator
RECURSIVE split_on(_, _)
split_on(s, c) ==
    LET hits == Positions(s, c)
    IN  IF hits = {} THEN <<s>>
        ELSE <<SubSeq(s, 1, First(hits) - 1)>>
                \o split_on(SubSeq(s, First(hits) + 1, Len(s)), c)

\* line 83: the prefixes of the lines that define no column
SkipPrefixes ==
    { <<"p","r","i","m","a","r","y">>, <<"u","n","i","q","u","e">>, <<"k","e","y">>,
      <<"c","o","n","s","t","r","a","i","n","t">>, <<")">> }

\* line 84: re.findall on ^, an optional blank or quote, (\w+): at most one hit
col_match(line) ==
    LET start == IF line # <<>> /\ (line[1] = " " \/ IsNameQuote(line[1])) THEN 2 ELSE 1
    IN  IF WordEnd(line, start) >= start
        THEN <<SubSeq(line, start, WordEnd(line, start))>>
        ELSE <<>>

\* lines 81-86: the loop over the lines of the column block
RECURSIVE headers_of_lines(_)
headers_of_lines(lines) ==
    IF lines = <<>> THEN <<>>
    ELSE LET line == strip(Head(lines))
             keep == /\ line # <<>>
                     /\ ~\E pre \in SkipPrefixes : startswith(lower_str(line), pre)
         IN  (IF keep THEN col_match(line) ELSE <<>>) \o headers_of_lines(Tail(lines))

get_headers_from_create_stmt(create_statement) ==
    LET match == outer_parens(create_statement)
    IN  IF ~match.some THEN <<>>
        ELSE headers_of_lines(split_on(remove_parens(match.val), "\n"))

(***************************************************************************)
(* SqlParser.process_table: one INSERT statement                           *)
(***************************************************************************)
KwInsertIntoBare == <<"I","N","S","E","R","T"," ","I","N","T","O">>

\* \s* followed by ' VALUES' at position k
SpacesThenValues(s, k) ==
    \E v \in k..Len(s) :
        /\ \A x \in k..(v - 1) : IsSpace(s[x])
        /\ s[v] = " "
        /\ MatchAt(s, v + 1, KwValues)

\* line 23: inline_headers_regex.search(s).group(1). The pattern is compiled without
\* re.VERBOSE, so its blanks are literal: '( ' opens the list and ' ) ' closes it.
inline_headers_regex(s) ==
    LET closes == {b \in 1..Len(s) :
                      MatchAt(s, b, <<" ", ")", " ">>) /\ SpacesThenValues(s, b + 3)}
        opens == {a \in 1..Len(s) :
                      MatchAt(s, a, <<"(", " ">>) /\ \E b \in closes : b >= a + 2}
        starts == {i \in 1..Len(s) :
                      /\ MatchAt(s, i, KwInsertIntoBare)
                      /\ \E a \in opens : a >= i + Len(KwInsertIntoBare)}
    IN  IF starts = {} THEN None
        ELSE LET a == First({x \in opens : x >= First(starts) + Len(KwInsertIntoBare)})
             IN  Option(SubSeq(s, a + 2, First({b \in closes : b >= a + 2}) - 1))

\* line 24: values_regex.search(s).group(1): all that follows the first VALUES
\* and the white space after it
values_regex(s) ==
    LET i == Find(s, KwValues, 1)
    IN  IF i = 0 THEN None ELSE Option(lstrip(SubSeq(s, i + Len(KwValues), Len(s))))

\* str.replace(c, '') for a one-character c
remove_char(s, c) == SelectSeq(s, LAMBDA x : x # c)

\* lines 142-143: the inline column list as header names
inline_headers(group) ==
    LET header_str == remove_char(remove_char(remove_char(group, BackQuote), "\""), "'")
        parts == split_comma(header_str)
    IN  [i \in 1..Len(parts) |-> strip(parts[i])]

DigitChar == <<"0","1","2","3","4","5","6","7","8","9">>

\* str(n) for n >= 0
RECURSIVE decimal(_)
decimal(n) ==
    IF n < 10 THEN <<DigitChar[n + 1]>> ELSE decimal(n \div 10) \o <<DigitChar[(n % 10) + 1]>>

\* line 153: f'column_{i+1}'
column_name(i) == <<"c","o","l","u","m","n","_">> \o decimal(i)

\* lines 139-154: the headers one statement's rows are validated against
active_headers_of(insert_stmt, default_headers, rows) ==
    LET inline_headers_match == inline_headers_regex(insert_stmt)
        active_headers == IF inline_headers_match.some
                          THEN inline_headers(inline_headers_match.val)
                          ELSE default_headers
    IN  IF active_headers = <<>> /\ rows # <<>>
        THEN [i \in 1..Len(rows[1]) |-> column_name(i)]
        ELSE active_headers

\* repr(s) of a str: single quotes unless s holds a ' and no "
repr_str(s) ==
    LET q == IF "'" \in {s[i] : i \in 1..Len(s)} /\ "\"" \notin {s[i] : i \in 1..Len(s)}
             THEN "\"" ELSE "'"
        Esc(c) == IF c = "\\" THEN <<"\\", "\\">>
                  ELSE IF c = q THEN <<"\\", c>>
                  ELSE IF c = "\n" THEN <<"\\", "n">>
                  ELSE IF c = "\r" THEN <<"\\", "r">>
                  ELSE IF c = "\t" THEN <<"\\", "t">>
                  ELSE <<c>>
    IN  <<q>> \o join(<<>>, [i \in 1..Len(s) |-> Esc(s[i])]) \o <<q>>

\* line 160: str(row) of a list of strs
str_row(row) ==
    <<"[">> \o join(<<",", " ">>, [i \in 1..Len(row) |-> repr_str(row[i])]) \o <<"]">>

\* a variant that also keeps the rows shorter than the header
partition_rows_at_most(acc, rows, active_headers) ==
    LET kept == SelectSeq(rows, LAMBDA row : Len(row) <= Len(active_headers))
        bad == SelectSeq(rows, LAMBDA row : Len(row) > Len(active_headers))
    IN  [acc EXCEPT !.all_values = @ \o kept,
                    !.wrong_length = @ \o [i \in 1..Len(bad) |-> str_row(bad[i])]]

\* lines 156-160: the rows of one statement, kept or recorded as wrong-length
partition_rows(acc, rows, active_headers) ==
    LET kept == SelectSeq(rows, LAMBDA row : Len(row) = Len(active_headers))
        bad == SelectSeq(rows, LAMBDA row : Len(row) # Len(active_headers))
    IN  [acc EXCEPT !.all_values = @ \o kept,
                    !.wrong_length = @ \o [i \in 1..Len(bad) |-> str_row(bad[i])]]

\* lines 138-162: the loop body for one INSERT statement. None of its calls raises
\* on a str (the tokenizer catches its own), so errors stays as it is.
process_insert(acc, insert_stmt, default_headers) ==
    LET values_match == values_regex(insert_stmt)
    IN  IF ~values_match.some THEN acc
        ELSE LET rows == parse_values_string(values_match.val)
             IN  partition_rows(acc, rows,
                                active_headers_of(insert_stmt, default_headers, rows))

RECURSIVE process_inserts(_, _, _)
process_inserts(acc, inserts, default_headers) ==
    IF inserts = <<>> THEN acc
    ELSE process_inserts(process_insert(acc, Head(inserts), default_headers),
                         Tail(inserts), default_headers)

\* line 133
default_headers_of(table_info) ==
    IF table_info.create # <<>> THEN get_headers_from_create_stmt(table_info.create)
    ELSE <<>>

\* lines 132-162: the locals of process_table when the loop has ended
process_table_locals(table_info) ==
    process_inserts([all_values |-> <<>>, wrong_length |-> <<>>, errors |-> <<>>],
                    table_info.inserts, default_headers_of(table_info))

Min(a, b) == IF a <= b THEN a ELSE b

\* str(e) of an exception raised while a statement is processed
ExceptionText == <<"E">>

\* line 162: insert_stmt[:100]
first_100 == 100

\* line 162: f"{e} in statement: {insert_stmt[:100]}..."
error_entry(e, insert_stmt) ==
    e \o <<" ","i","n"," ","s","t","a","t","e","m","e","n","t",":"," ">>
      \o SubSeq(insert_stmt, 1, Min(first_100, Len(insert_stmt))) \o <<".",".",".">>

\* a variant in which the first exception ends the loop over the statements
process_inserts_aborting(acc, inserts, default_headers, raising, i) ==
    LET firsts == {k \in 1..Len(inserts) : i + k - 1 \in raising}
        upto == IF firsts = {} THEN Len(inserts) ELSE First(firsts) - 1
        done == process_inserts(acc, SubSeq(inserts, 1, upto), default_headers)
    IN  IF firsts = {} THEN done
        ELSE [done EXCEPT !.errors = Append(@, error_entry(ExceptionText, inserts[upto + 1]))]

\* lines 137-162 when the environment makes the statements numbered in raising raise
\* inside the try block (the searches, the tokenizer and the print of line 154 all
\* come before the loop of lines 156-160): a raising statement adds an entry to
\* errors and no row, and the loop goes on with the next statement. i is the number
\* of the first statement of inserts.
RECURSIVE process_inserts_raising(_, _, _, _, _)
process_inserts_raising(acc, inserts, default_headers, raising, i) ==
    IF inserts = <<>> THEN acc
    ELSE process_inserts_raising(
             IF i \in raising
             THEN [acc EXCEPT !.errors = Append(@, error_entry(ExceptionText, Head(inserts)))]
             ELSE process_insert(acc, Head(inserts), default_headers),
             Tail(inserts), default_headers, raising, i + 1)

\* lines 132-162 with the statements numbered in raising raising
process_table_locals_raising(table_info, raising) ==
    process_inserts_raising([all_values |-> <<>>, wrong_length |-> <<>>, errors |-> <<>>],
                            table_info.inserts, default_headers_of(table_info), raising, 1)

(***************************************************************************)
(* SqlParser._write_to_csv and the files it writes                         *)
(***************************************************************************)
\* the name of the dump file (SqlParser.filename)
DumpFileName == <<"d",".","s","q","l">>

\* line 171: filename.rsplit(".", 1)[0].strip()
filename_stem ==
    LET dots == Positions(DumpFileName, ".")
    IN  strip(IF dots = {} THEN DumpFileName
              ELSE SubSeq(DumpFileName, 1, Last(dots) - 1))

\* line 20
typelist ==
    { <<"e","m","a","i","l">>, <<"u","s","e","r","n","a","m","e">>, <<"a","l","i","a","s">>,
      <<"i","p","a","d","d","r","e","s","s">>, <<"i","p","_","a","d","d","r","e","s","s">>,
      <<"a","d","d","r","e","s","s">>, <<"i","p">> }

\* t in h
contains(h, t) == \E i \in 1..(Len(h) - Len(t) + 1) : SubSeq(h, i, i + Len(t) - 1) = t

Range(q) == {q[i] : i \in 1..Len(q)}

\* lines 175-179: the directory the table's files go to
bpath(headers) ==
    IF \E h \in Range(headers) : \E t \in typelist : contains(h, t)
    THEN "SqlConversions/stem/Good Ones" ELSE "SqlConversions/stem"

StrTable == <<"t","a","b","l","e">>

\* a variant that names the CSV after the dump alone
csv_name_of_dump(target_table) == filename_stem \o <<".","c","s","v">>

csv_name(target_table) == filename_stem \o <<" ","-"," ">> \o target_table \o <<".","c","s","v">>

wrong_length_name(target_table) ==
    filename_stem \o <<" ","-"," ">> \o target_table
        \o <<"_","w","r","o","n","g","_","l","e","n","g","t","h",".","t","x","t">>

errored_lines_name ==
    filename_stem \o <<"_","E","r","r","o","r","e","d","L","i","n","e","s",".","t","x","t">>

Path(dir, name) == [dir |-> dir, name |-> name]

\* open(path, 'w') / Path.write_text: the file is created or replaced
write_file(files, path, content) ==
    [p \in DOMAIN files \cup {path} |-> IF p = path THEN content ELSE files[p]]

\* open(path, 'a'): the content goes after what the file holds
append_file(files, path, content) ==
    write_file(files, path, (IF path \in DOMAIN files THEN files[path] ELSE <<>>) \o content)

\* lines 186-190: the records written to the CSV
csv_records(target_table, headers, values) ==
    LET csv_headers == IF StrTable \notin Range(headers)
                       THEN headers \o <<StrTable>> ELSE headers
        sized == SelectSeq(values, LAMBDA row : Len(row) = Len(headers))
    IN  <<csv_headers>> \o [i \in 1..Len(sized) |-> sized[i] \o <<target_table>>]

write_to_csv(files, target_table, headers, values, wronglength, errors) ==
    LET dir == bpath(headers)
        f1 == IF values # <<>>
              THEN write_file(files, Path(dir, csv_name(target_table)),
                              csv_records(target_table, headers, values))
              ELSE files
        f2 == IF wronglength # <<>>
              THEN write_file(f1, Path(dir, wrong_length_name(target_table)), wronglength)
              ELSE f1
    IN  IF errors # <<>>
        THEN append_file(f2, Path(dir, errored_lines_name), errors)
        ELSE f2

\* a variant that keeps the kept rows as a list, repeats included
unique_orders_keeping_repeats(all_values) == {all_values}

\* line 164: the orders in which list(set(...)) may enumerate the distinct rows
unique_orders(all_values) ==
    LET S == Range(all_values)
    IN  {q \in [1..Cardinality(S) -> S] : \A i, j \in 1..Cardinality(S) : q[i] = q[j] => i = j}

\* line 166: the headers process_table hands to _write_to_csv
export_headers(default_headers, unique_values) ==
    IF default_headers # <<>> THEN default_headers
    ELSE IF unique_values # <<>> THEN <<column_name(1)>>
    ELSE <<>>

(***************************************************************************)
(* SqlRepair.py: SchemaAnalyzer                                            *)
(***************************************************************************)
\* [^@\s]
EmailChar(c) == c # "@" /\ ~IsSpace(c)

\* line 20: email_regex.match(value): [^@\s]+@[^@\s]+\.[^@\s]+ at the start of value
email_regex_match(value) ==
    \E at \in 2..Len(value) :
        /\ value[at] = "@"
        /\ \A k \in 1..(at - 1) : EmailChar(value[k])
        /\ \E dot \in (at + 2)..(Len(value) - 1) :
              /\ value[dot] = "."
              /\ \A k \in (at + 1)..(dot - 1) : EmailChar(value[k])
              /\ EmailChar(value[dot + 1])

\* str.isdigit()
isdigit(value) == value # <<>> /\ \A i \in 1..Len(value) : value[i] \in Digits

StrNull == <<"n","u","l","l">>

\* lines 51-59: the type of one cell, or none for an empty or null cell
cell_type(item) ==
    IF item = <<>> \/ lower_str(item) = StrNull THEN <<>>
    ELSE IF isdigit(item) THEN <<"integer">>
    ELSE IF email_regex_match(item) THEN <<"email">>
    ELSE <<"string">>

RECURSIVE cell_types(_)
cell_types(column_data) ==
    IF column_data = <<>> THEN <<>>
    ELSE cell_type(Head(column_data)) \o cell_types(Tail(column_data))

Count(types, t) == Cardinality({i \in 1..Len(types) : types[i] = t})

\* a variant in which the most frequent type counted last wins a tie
infer_type_last_counted(column_data) ==
    LET types == cell_types(column_data)
        top == {i \in 1..Len(types) :
                   \A j \in 1..Len(types) : Count(types, types[j]) <= Count(types, types[i])}
    IN  IF types = <<>> THEN "string" ELSE types[Last(top)]

\* lines 48-65: Counter(types).most_common(1): among the most frequent types
\* the one counted first
infer_type(column_data) ==
    LET types == cell_types(column_data)
        top == {i \in 1..Len(types) :
                   \A j \in 1..Len(types) : Count(types, types[j]) <= Count(types, types[i])}
    IN  IF types = <<>> THEN "string" ELSE types[First(top)]

\* line 22: analysis_rows
AnalysisRows == 50

\* lines 25-46: the schema of a CSV whose records are csv_rows; the file holds
\* at least its header record
analyze_rows(csv_rows, analysis_rows) ==
    LET header == csv_rows[1]
        sampled == SubSeq(csv_rows, 2, Min(Len(csv_rows), analysis_rows + 1))
        Column(j) == LET with == SelectSeq(sampled, LAMBDA row : Len(row) >= j)
                     IN  [i \in 1..Len(with) |-> with[i][j]]
    IN  [i \in 1..Len(header) |->
            [name |-> header[i], type |-> infer_type(Column(i)), index |-> i - 1]]

\* analyze(), as run_recovery calls it: analysis_rows takes its default
analyze(csv_rows) == analyze_rows(csv_rows, AnalysisRows)

(***************************************************************************)
(* SqlRepair.py: RowRepairer                                               *)
(***************************************************************************)
\* lines 106-117
calculate_match_score(value, expected_type) ==
    IF value = <<>> \/ lower_str(value) = StrNull THEN 0
    ELSE IF expected_type = "email" /\ email_regex_match(value) THEN 10
    ELSE IF expected_type = "integer" /\ isdigit(value) THEN 5
    ELSE IF expected_type = "string" THEN 1
    ELSE 0

\* lines 83-87: the score of one offset; i counts from 0 as enumerate does
RECURSIVE alignment_score(_, _, _, _)
alignment_score(bad_row_values, schema, offset, i) ==
    IF i >= Len(bad_row_values) THEN 0
    ELSE (IF 0 <= i + offset /\ i + offset < Len(schema)
          THEN calculate_match_score(bad_row_values[i + 1], schema[i + offset + 1].type)
          ELSE 0)
         + alignment_score(bad_row_values, schema, offset, i + 1)

\* a variant in which an equal score replaces the best: the last offset wins on ties
RECURSIVE best_alignment_last_wins(_, _, _, _)
best_alignment_last_wins(bad_row_values, schema, offset, best) ==
    IF offset >= Len(schema) THEN best
    ELSE LET current_score == alignment_score(bad_row_values, schema, offset, 0)
         IN  best_alignment_last_wins(bad_row_values, schema, offset + 1,
                IF current_score >= best.highest_score
                THEN [best_offset |-> offset, highest_score |-> current_score]
                ELSE best)

\* lines 82-91: the loop over range(-len(bad_row_values), len(self.schema))
RECURSIVE best_alignment(_, _, _, _)
best_alignment(bad_row_values, schema, offset, best) ==
    IF offset >= Len(schema) THEN best
    ELSE LET current_score == alignment_score(bad_row_values, schema, offset, 0)
         IN  best_alignment(bad_row_values, schema, offset + 1,
                IF current_score > best.highest_score
                THEN [best_offset |-> offset, highest_score |-> current_score]
                ELSE best)

\* a variant that leaves the positions no input field reaches empty
reconstruct_blank_padded(bad_row_values, schema, best_offset) ==
    [j \in 1..Len(schema) |->
        IF 1 <= j - best_offset /\ j - best_offset <= Len(bad_row_values)
        THEN bad_row_values[j - best_offset] ELSE <<>>]

\* a variant that shifts the input row by best_offset without fitting it to the schema
reconstruct_unfitted(bad_row_values, schema, best_offset) ==
    [j \in 1..(Len(bad_row_values) + best_offset) |->
        IF 1 <= j - best_offset THEN bad_row_values[j - best_offset]
        ELSE <<"N","U","L","L">>]

\* lines 98-104: the row rebuilt at best_offset
reconstruct(bad_row_values, schema, best_offset) ==
    [j \in 1..Len(schema) |->
        IF 1 <= j - best_offset /\ j - best_offset <= Len(bad_row_values)
        THEN bad_row_values[j - best_offset] ELSE <<"N","U","L","L">>]

\* a variant that gives up only below 0: a best score of 0 still yields a row
repair_accepting_zero(bad_row_values, schema) ==
    LET best == best_alignment(bad_row_values, schema, -Len(bad_row_values),
                               [best_offset |-> 0, highest_score |-> -1])
    IN  IF best.highest_score < 0 THEN None
        ELSE Option(reconstruct(bad_row_values, schema, best.best_offset))

\* lines 73-104
repair(bad_row_values, schema) ==
    LET best == best_alignment(bad_row_values, schema, -Len(bad_row_values),
                               [best_offset |-> 0, highest_score |-> -1])
    IN  IF best.highest_score <= 0 THEN None
        ELSE Option(reconstruct(bad_row_values, schema, best.best_offset))

(***************************************************************************)
(* SqlRepair.py: SqlRepair                                                 *)
(***************************************************************************)
\* str.replace(old, new)
RECURSIVE replace(_, _, _)
replace(s, old, new) ==
    LET hits == {i \in 1..(Len(s) - Len(old) + 1) : SubSeq(s, i, i + Len(old) - 1) = old}
    IN  IF hits = {} THEN s
        ELSE SubSeq(s, 1, First(hits) - 1) \o new
                \o replace(SubSeq(s, First(hits) + Len(old), Len(s)), old, new)

\* str.split(sep)
RECURSIVE split(_, _)
split(s, sep) ==
    LET hits == {i \in 1..(Len(s) - Len(sep) + 1) : SubSeq(s, i, i + Len(sep) - 1) = sep}
    IN  IF hits = {} THEN <<s>>
        ELSE <<SubSeq(s, 1, First(hits) - 1)>>
                \o split(SubSeq(s, First(hits) + Len(sep), Len(s)), sep)

SuffixWrongLength == <<"_","w","r","o","n","g","_","l","e","n","g","t","h",".","t","x","t">>

SuffixCsv == <<".","c","s","v">>

\* a variant that adds the suffix .csv without taking _wrong_length.txt away
derive_csv_path_appending(wrong_length_path) ==
    Path(wrong_length_path.dir, wrong_length_path.name \o SuffixCsv)

\* lines 132-134
derive_csv_path(wrong_length_path) ==
    Path(wrong_length_path.dir, replace(wrong_length_path.name, SuffixWrongLength, SuffixCsv))

\* line 129: with_name(stem + '_failed_recovery.txt'), stem being the name up to its last dot
failed_recovery_path(wrong_length_path) ==
    LET name == wrong_length_path.name
        dots == {i \in Positions(name, ".") : i > 1}
        stem == IF dots = {} THEN name ELSE SubSeq(name, 1, Last(dots) - 1)
    IN  Path(wrong_length_path.dir,
             stem \o <<"_","f","a","i","l","e","d","_","r","e","c","o","v","e","r","y",
                       ".","t","x","t">>)

\* a variant that removes every semicolon, not only a trailing one
remove_semicolons(s) == remove_char(s, ";")

\* str.removesuffix(';')
removesuffix_semicolon(s) ==
    IF endswith(s, <<";">>) THEN SubSeq(s, 1, Len(s) - 1) ELSE s

\* lines 142-155: the loop body of SqlRepair._parse_values_string for one character
repair_scan_char(st, char) ==
    LET in_string == IF char = "'" /\ (st.char_buffer = <<>>
                                       \/ st.char_buffer[Len(st.char_buffer)] # "\\")
                     THEN ~st.in_string ELSE st.in_string
        Buffered(s2) == IF s2.paren_level > 0
                        THEN [s2 EXCEPT !.char_buffer = Append(@, char)] ELSE s2
    IN  IF ~in_string /\ char = "("
        THEN IF st.paren_level + 1 = 1
             THEN [st EXCEPT !.in_string = in_string, !.paren_level = 1,
                             !.char_buffer = <<>>]
             ELSE Buffered([st EXCEPT !.in_string = in_string, !.paren_level = @ + 1])
        ELSE IF ~in_string /\ char = ")"
        THEN IF st.paren_level - 1 = 0
             THEN [st EXCEPT !.in_string = in_string, !.paren_level = 0,
                             !.rows = Append(@, split_fields(st.char_buffer)),
                             !.char_buffer = <<>>]
             ELSE Buffered([st EXCEPT !.in_string = in_string, !.paren_level = @ - 1])
        ELSE Buffered([st EXCEPT !.in_string = in_string])

RECURSIVE repair_scan(_, _)
repair_scan(st, values_str) ==
    IF values_str = <<>> THEN st
    ELSE repair_scan(repair_scan_char(st, Head(values_str)), Tail(values_str))

\* lines 136-156
repair_parse_values_string(values_str) ==
    repair_scan(ScanInit, removesuffix_semicolon(strip(values_str))).rows

\* lines 170-176: the rows of one line of the wrong-length file
reparse_line(raw) ==
    LET line == strip(raw)
        values_match == values_regex(line)
    IN  IF line = <<>> THEN <<>>
        ELSE repair_parse_values_string(IF values_match.some THEN values_match.val ELSE line)

RECURSIVE reparse_lines(_)
reparse_lines(failed_lines) ==
    IF failed_lines = <<>> THEN <<>>
    ELSE reparse_line(Head(failed_lines)) \o reparse_lines(Tail(failed_lines))

\* lines 177-182: the rows repaired, each with the table name, and the rows not repaired
sort_rows(reparsed_rows, schema, table_name) ==
    LET good == SelectSeq(reparsed_rows, LAMBDA row : repair(row, schema).some)
        bad == SelectSeq(reparsed_rows, LAMBDA row : ~repair(row, schema).some)
    IN  [recovered_rows |-> [i \in 1..Len(good) |-> repair(good[i], schema).val \o <<table_name>>],
         still_failed |-> [i \in 1..Len(bad) |-> str_row(bad[i])]]

\* a variant that opens the CSV for writing, not for appending
write_recovery_rewriting(files, csv_path, failed_path, recovered_rows, still_failed) ==
    LET f1 == IF recovered_rows # <<>> THEN write_file(files, csv_path, recovered_rows)
              ELSE files
    IN  IF still_failed # <<>> THEN write_file(f1, failed_path, still_failed) ELSE f1

\* a variant that writes the failed rows only when no row was recovered
write_recovery_either(files, csv_path, failed_path, recovered_rows, still_failed) ==
    IF recovered_rows # <<>> THEN append_file(files, csv_path, recovered_rows)
    ELSE IF still_failed # <<>> THEN write_file(files, failed_path, still_failed)
    ELSE files

\* lines 184-192: the files run_recovery writes
write_recovery(files, csv_path, failed_path, recovered_rows, still_failed) ==
    LET f1 == IF recovered_rows # <<>> THEN append_file(files, csv_path, recovered_rows)
              ELSE files
    IN  IF still_failed # <<>> THEN write_file(f1, failed_path, still_failed) ELSE f1

NoRecovery == [done |-> FALSE, path |-> Path("", <<>>), error |-> "", csv_before |-> <<>>,
               schema |-> <<>>, reparsed |-> <<>>, recovered_rows |-> <<>>,
               still_failed |-> <<>>]

Failed(wrong_length_path, error) ==
    [NoRecovery EXCEPT !.done = TRUE, !.path = wrong_length_path, !.error = error]

\* main, lines 213-220: SqlRepair(wrong_length_file).run_recovery()
RunRecovery(wrong_length_path) ==
    LET csv_path == derive_csv_path(wrong_length_path)
        parts == split(csv_path.name, <<" ","-"," ">>)
    IN  /\ IF wrong_length_path \notin DOMAIN fs \/ csv_path \notin DOMAIN fs
           THEN \* lines 122-127
                /\ recovery' = Failed(wrong_length_path, "FileNotFoundError")
                /\ UNCHANGED fs
           ELSE IF fs[csv_path] = <<>>
           THEN \* line 27: next(reader) on a CSV without records
                /\ recovery' = Failed(wrong_length_path, "StopIteration")
                /\ UNCHANGED fs
           ELSE IF Len(parts) < 2
           THEN \* line 163
                /\ recovery' = Failed(wrong_length_path, "IndexError")
                /\ UNCHANGED fs
           ELSE LET schema == analyze(fs[csv_path])
                    table_name == replace(parts[2], SuffixCsv, <<>>)
                    reparsed == reparse_lines(fs[wrong_length_path])
                    sorted == sort_rows(reparsed, schema, table_name)
                IN  /\ fs' = write_recovery(fs, csv_path, failed_recovery_path(wrong_length_path),
                                            sorted.recovered_rows, sorted.still_failed)
                    /\ recovery' = [done |-> TRUE, path |-> wrong_length_path, error |-> "",
                                    csv_before |-> fs[csv_path],
                                    schema |-> schema, reparsed |-> reparsed,
                                    recovered_rows |-> sorted.recovered_rows,
                                    still_failed |-> sorted.still_failed]
        /\ UNCHANGED <<file, statement_buffer, index, pc, tables, export, arg, ret>>

(***************************************************************************)
(* The dump, and the calls of the front ends                               *)
(***************************************************************************)
MaxLines == 3

LineCreateOpen == KwCreateTable \o <<"t"," ","(","a"," ","I","N","T",",">>

LineCreateClose == <<"b"," ","I","N","T",")",";">>

LineCreateOneLine ==
    KwCreateTable \o <<"t"," ","(","a"," ","I","N","T",","," ","b"," ","I","N","T",")",";">>

LineInsert == KwInsertInto \o <<"t"," ">> \o KwValues \o <<" ","(","1",",","2",")",",","(","3",")",";">>

LineInsertInline ==
    KwInsertInto \o <<"t"," ","(","a",")"," ">> \o KwValues
        \o <<" ","(","1",",","2",")",",","(","7",")",";">>

LineInsertSpaced ==
    KwInsertInto \o <<"t"," ","("," ","a"," ",")"," "," ">> \o KwValues
        \o <<" ","(","7",")",",","(","8",",","9",")",";">>

LineInsertLower ==
    <<" ","i","n","s","e","r","t"," ","i","n","t","o"," ",BackQuote,"T",BackQuote," ">>
        \o <<"v","a","l","u","e","s"," ","(","5",")",";","\n">>

LineBlank == <<" ","\n">>

\* the lines the dump file may hold
FileLines ==
    { LineCreateOpen, LineCreateClose, LineCreateOneLine, LineInsert, LineInsertInline,
      LineInsertSpaced, LineInsertLower, LineBlank }

\* a table name no statement of the dump uses
UnknownTable == <<"z","z">>

NoCall == [table |-> <<>>, found |-> FALSE, default_headers |-> <<>>, all_values |-> <<>>,
           wrong_length |-> <<>>, errors |-> <<>>, unique_values |-> <<>>, headers |-> <<>>]

Keys(idx) == [i \in 1..Len(idx) |-> idx[i].name]

\* lines 39-60: one iteration of the loop over the file
ReadLine(raw) ==
    /\ pc = "indexing"
    /\ Len(file) < MaxLines
    /\ file' = Append(file, raw)
    /\ LET line == strip(raw)
       IN  IF line = <<>>
           THEN UNCHANGED <<statement_buffer, index>>
           ELSE IF endswith(line, <<";">>)
           THEN /\ index' = index_statement(index, join(<<"\n">>, Append(statement_buffer, line)))
                /\ statement_buffer' = <<>>
           ELSE /\ statement_buffer' = Append(statement_buffer, line)
                /\ UNCHANGED index
    /\ UNCHANGED <<pc, tables, fs, export, recovery, arg, ret>>

\* a variant that treats what is left in the statement buffer at the end of the
\* file as a last statement
EndOfFileFlushing ==
    /\ pc = "indexing"
    /\ pc' = "indexed"
    /\ index' = IF statement_buffer = <<>> THEN index
                ELSE index_statement(index, join(<<"\n">>, statement_buffer))
    /\ tables' = Keys(index')
    /\ statement_buffer' = <<>>
    /\ UNCHANGED <<file, fs, export, recovery, arg, ret>>

\* lines 62-67: the file is exhausted and build_index returns list(self.index.keys())
EndOfFile ==
    /\ pc = "indexing"
    /\ pc' = "indexed"
    /\ tables' = Keys(index)
    /\ statement_buffer' = <<>>
    /\ UNCHANGED <<file, index, fs, export, recovery, arg, ret>>

\* a variant that gives an unknown table an empty entry of the index, as a
\* defaultdict would
ProcessTableEnsuring(table_name) ==
    /\ pc = "indexed"
    /\ index' = ensure_table_in_index(index, table_name)
    /\ export' = [NoCall EXCEPT !.table = table_name, !.found = HasTable(index, table_name)]
    /\ UNCHANGED <<file, statement_buffer, pc, tables, fs, recovery, arg, ret>>

\* lines 127-167, with _write_to_csv
ProcessTable(table_name) ==
    /\ pc = "indexed"
    /\ IF ~HasTable(index, table_name)
       THEN /\ export' = [NoCall EXCEPT !.table = table_name]
            /\ UNCHANGED fs
       ELSE LET table_info == Entry(index, table_name)
                default_headers == default_headers_of(table_info)
                locals == process_table_locals(table_info)
            IN  \E unique_values \in unique_orders(locals.all_values) :
                    LET headers == export_headers(default_headers, unique_values)
                    IN  /\ fs' = write_to_csv(fs, table_name, headers, unique_values,
                                              locals.wrong_length, locals.errors)
                        /\ export' = [table |-> table_name, found |-> TRUE,
                                      default_headers |-> default_headers,
                                      all_values |-> locals.all_values,
                                      wrong_length |-> locals.wrong_length,
                                      errors |-> locals.errors,
                                      unique_values |-> unique_values,
                                      headers |-> headers]
    /\ UNCHANGED <<file, statement_buffer, index, pc, tables, recovery, arg, ret>>

Init ==
    /\ file = <<>>
    /\ statement_buffer = <<>>
    /\ index = <<>>
    /\ pc = "indexing"
    /\ tables = <<>>
    /\ fs = <<>>
    /\ export = NoCall
    /\ recovery = NoRecovery
    /\ arg = <<>>
    /\ ret = <<>>

Next ==
    \/ \E raw \in FileLines : ReadLine(raw)
    \/ EndOfFile
    \/ \E table_name \in Range(Keys(index)) \cup {UnknownTable} : ProcessTable(table_name)

Spec == Init /\ [][Next]_vars

(***************************************************************************)
(* Function specifications: the inputs are drawn in the initial state and  *)
(* one action applies the function.                                        *)
(***************************************************************************)
PipelineIdle ==
    /\ file = <<>>
    /\ statement_buffer = <<>>
    /\ index = <<>>
    /\ tables = <<>>
    /\ fs = <<>>
    /\ export = NoCall
    /\ recovery = NoRecovery

SeqsUpTo(S, n) == UNION {[1..k -> S] : k \in 0..n}

\* ---- SqlParser._parse_values_string, one character at a time ----
MaxValuesLen == 5

ValuesAlphabet == {"(", ")", "'", "\\", ",", "a", ";", " "}

InitTok ==
    /\ PipelineIdle
    /\ pc = "scanning"
    /\ arg = <<>>
    /\ ret = ScanInit

\* lines 100-124: the loop reads the next character of values_str
ScanChar(char) ==
    /\ pc = "scanning"
    /\ Len(arg) < MaxValuesLen
    /\ arg' = Append(arg, char)
    /\ ret' = scan_char(ret, char)
    /\ UNCHANGED <<file, statement_buffer, index, pc, tables, fs, export, recovery>>

NextTok == \E char \in ValuesAlphabet : ScanChar(char)

SpecTok == InitTok /\ [][NextTok]_vars

\* ---- RowRepairer.repair ----
MaxRowLen == 3

MaxSchemaLen == 2

RepairValues ==
    { <<>>, <<"N","U","L","L">>, <<"4","2">>, <<"x","@","y",".","c","o">>, <<"a","b">> }

ColumnTypes == {"integer", "email", "string"}

\* a schema as analyze builds it, from the types of its columns
SchemaOf(types) ==
    [i \in 1..Len(types) |-> [name |-> column_name(i), type |-> types[i], index |-> i - 1]]

InitRepair ==
    /\ PipelineIdle
    /\ pc = "call"
    /\ \E row \in SeqsUpTo(RepairValues, MaxRowLen), types \in SeqsUpTo(ColumnTypes, MaxSchemaLen) :
          arg = [bad_row_values |-> row, schema |-> SchemaOf(types)]
    /\ ret = None

Repair ==
    /\ pc = "call"
    /\ pc' = "return"
    /\ ret' = repair(arg.bad_row_values, arg.schema)
    /\ UNCHANGED <<file, statement_buffer, index, tables, fs, export, recovery, arg>>

NextRepair == Repair

SpecRepair == InitRepair /\ [][NextRepair]_vars

\* ---- SqlRepair.run_recovery on a CSV and a wrong-length file ----
MaxCsvData == 2

MaxWrongLines == 2

NameT == <<"t">>

RecoveryHeader == <<<<"a">>, <<"b">>, StrTable>>

RecoveryCsvRows ==
    { <<<<"1">>, <<"x","@","y",".","c","o">>, NameT>>, <<<<"a","b">>, <<"7">>, NameT>> }

RecoveryLines ==
    { <<"(","7",")">>,
      KwValues \o <<" ","(","x","@","y",".","c","o",",","5",")",",","(","N","U","L","L",")",";">>,
      <<"[","'","3","'","]">>,
      <<"(","a","b",",",",","1",")">>,
      <<"(","N","U","L","L",",",")">> }

\* a table whose wrong-length file may be on disk without its CSV
OrphanTable == <<"o">>

InitRecovery ==
    /\ file = <<>> /\ statement_buffer = <<>> /\ index = <<>> /\ tables = <<>>
    /\ export = NoCall /\ recovery = NoRecovery /\ arg = <<>> /\ ret = <<>>
    /\ pc = "indexed"
    /\ \E data \in SeqsUpTo(RecoveryCsvRows, MaxCsvData),
          lines \in SeqsUpTo(RecoveryLines, MaxWrongLines),
          orphan \in SeqsUpTo(RecoveryLines, 1) :
          LET pair == write_file(write_file(<<>>, Path("SqlConversions/stem", csv_name(NameT)),
                                            <<RecoveryHeader>> \o data),
                                 Path("SqlConversions/stem", wrong_length_name(NameT)), lines)
          IN  fs = IF orphan = <<>> THEN pair
                   ELSE write_file(pair, Path("SqlConversions/stem",
                                              wrong_length_name(OrphanTable)), orphan)

\* the wrong-length files on disk, and one path that names no file
RecoveryPaths ==
    {p \in DOMAIN fs : endswith(p.name, SuffixWrongLength)}
        \cup {Path("SqlConversions/stem", wrong_length_name(UnknownTable))}

\* the repair tool is run once on the files
NextRecovery ==
    \E path \in RecoveryPaths : ~recovery.done /\ RunRecovery(path)

SpecRecovery == InitRecovery /\ [][NextRecovery]_vars

\* ---- SqlParser._get_headers_from_create_stmt ----
MaxDefs == 3

\* the entries of a column block: the text, and the column it defines (if any)
ColumnDefs ==
    { [text |-> <<"i","d"," ","I","N","T">>, column |-> <<<<"i","d">>>>],
      [text |-> <<"n","a","m","e"," ","V","A","R","C","H","A","R","(","2","5","5",")",
                  " ","N","O","T"," ","N","U","L","L">>,
       column |-> <<<<"n","a","m","e">>>>],
      [text |-> <<BackQuote,"q","t","y",BackQuote," ","I","N","T">>,
       column |-> <<<<"q","t","y">>>>],
      [text |-> <<"P","R","I","M","A","R","Y"," ","K","E","Y"," ","(","i","d",")">>,
       column |-> <<>>] }

\* CREATE TABLE t (...); with the entries on one line or on a line each
CreateStatement(defs, layout) ==
    LET texts == [i \in 1..Len(defs) |-> defs[i].text]
    IN  IF layout = "one line"
        THEN KwCreateTable \o <<"t"," ","(">> \o join(<<","," ">>, texts) \o <<")",";">>
        ELSE KwCreateTable \o <<"t"," ","(","\n"," "," ">>
                \o join(<<",","\n"," "," ">>, texts) \o <<"\n",")",";">>

InitHdr ==
    /\ PipelineIdle
    /\ pc = "call"
    /\ \E defs \in SeqsUpTo(ColumnDefs, MaxDefs), layout \in {"one line", "separate lines"} :
          /\ defs # <<>>
          /\ arg = [defs |-> defs, layout |-> layout,
                    create_statement |-> CreateStatement(defs, layout)]
    /\ ret = <<>>

GetHeaders ==
    /\ pc = "call"
    /\ pc' = "return"
    /\ ret' = get_headers_from_create_stmt(arg.create_statement)
    /\ UNCHANGED <<file, statement_buffer, index, tables, fs, export, recovery, arg>>

NextHdr == GetHeaders

SpecHdr == InitHdr /\ [][NextHdr]_vars

\* ---- process_table calls on a dump some of whose statements raise ----
MaxCalls == 3

NameU == <<"u">>

NameV == <<"v">>

\* CREATE TABLE u (email TEXT);
LineCreateU ==
    KwCreateTable \o NameU \o <<" ","(","e","m","a","i","l"," ","T","E","X","T",")",";">>

\* INSERT INTO u VALUES (x@y.co),(1,2);
LineInsertU ==
    KwInsertInto \o NameU \o <<" ">> \o KwValues
        \o <<" ","(","x","@","y",".","c","o",")",",","(","1",",","2",")",";">>

\* INSERT INTO t VALUES (1),(2,3);
LineInsertT ==
    KwInsertInto \o NameT \o <<" ">> \o KwValues
        \o <<" ","(","1",")",",","(","2",",","3",")",";">>

\* INSERT INTO t, 90 blanks, VALUES (7); a statement of 114 characters
LineInsertLong ==
    KwInsertInto \o NameT \o [i \in 1..90 |-> " "] \o KwValues \o <<" ","(","7",")",";">>

\* INSERT INTO v VALUES (5);
LineInsertV ==
    KwInsertInto \o NameV \o <<" ">> \o KwValues \o <<" ","(","5",")",";">>

\* the dump: three tables, one with a CREATE statement and an email column
ErrDump == <<LineCreateU, LineInsertU, LineInsertLong, LineInsertT, LineInsertV>>

\* lines 39-60 on a file whose every line is a complete statement
RECURSIVE IndexOf(_, _)
IndexOf(idx, lines) ==
    IF lines = <<>> THEN idx
    ELSE IndexOf(index_statement(idx, strip(Head(lines))), Tail(lines))

InitErr ==
    /\ file = ErrDump
    /\ statement_buffer = <<>>
    /\ index = IndexOf(<<>>, ErrDump)
    /\ tables = Keys(IndexOf(<<>>, ErrDump))
    /\ pc = "indexed"
    /\ fs = <<>>
    /\ export = NoCall
    /\ recovery = NoRecovery
    /\ arg = <<>>
    /\ ret = <<>>

\* process_table(table_name) while the environment makes the statements numbered in
\* raising raise; ret is the log of the calls made so far
ProcessTableRaising(table_name, raising) ==
    /\ pc = "indexed"
    /\ Len(ret) < MaxCalls
    /\ IF ~HasTable(index, table_name)
       THEN /\ raising = {}
            /\ export' = [NoCall EXCEPT !.table = table_name]
            /\ ret' = Append(ret, [table |-> table_name, raising |-> raising,
                                   errors |-> <<>>])
            /\ UNCHANGED fs
       ELSE LET table_info == Entry(index, table_name)
                default_headers == default_headers_of(table_info)
                locals == process_table_locals_raising(table_info, raising)
            IN  /\ raising \subseteq 1..Len(table_info.inserts)
                /\ \E unique_values \in unique_orders(locals.all_values) :
                      LET headers == export_headers(default_headers, unique_values)
                      IN  /\ fs' = write_to_csv(fs, table_name, headers, unique_values,
                                                locals.wrong_length, locals.errors)
                          /\ export' = [table |-> table_name, found |-> TRUE,
                                        default_headers |-> default_headers,
                                        all_values |-> locals.all_values,
                                        wrong_length |-> locals.wrong_length,
                                        errors |-> locals.errors,
                                        unique_values |-> unique_values,
                                        headers |-> headers]
                /\ ret' = Append(ret, [table |-> table_name, raising |-> raising,
                                       errors |-> locals.errors])
    /\ UNCHANGED <<file, statement_buffer, index, pc, tables, recovery, arg>>

NextErr ==
    \E table_name \in Range(Keys(index)) \cup {UnknownTable}, raising \in SUBSET (1..2) :
        ProcessTableRaising(table_name, raising)

SpecErr == InitErr /\ [][NextErr]_vars

\* ---- two process_table calls on distinct tables, step by step ----
\* a call before its first step; written is the set of the files it has written
CallOf(table_name, raising) ==
    [table |-> table_name, raising |-> raising, step |-> "start", headers |-> <<>>,
     values |-> <<>>, wronglength |-> <<>>, errors |-> <<>>, written |-> {}]

InitPar ==
    /\ file = ErrDump
    /\ statement_buffer = <<>>
    /\ index = IndexOf(<<>>, ErrDump)
    /\ tables = Keys(IndexOf(<<>>, ErrDump))
    /\ pc = "exporting"
    /\ fs = <<>>
    /\ export = NoCall
    /\ recovery = NoRecovery
    /\ arg = <<>>
    /\ \E t1, t2 \in Range(Keys(IndexOf(<<>>, ErrDump))) :
          \E r1 \in SUBSET (1..Len(Entry(IndexOf(<<>>, ErrDump), t1).inserts)),
             r2 \in SUBSET (1..Len(Entry(IndexOf(<<>>, ErrDump), t2).inserts)) :
             /\ t1 # t2
             /\ ret = <<CallOf(t1, r1), CallOf(t2, r2)>>

\* lines 129-166: the call reads its index entry and computes what it will write
Parse(c) ==
    /\ pc = "exporting"
    /\ ret[c].step = "start"
    /\ LET table_info == Entry(index, ret[c].table)
           locals == process_table_locals_raising(table_info, ret[c].raising)
       IN  \E unique_values \in unique_orders(locals.all_values) :
              ret' = [ret EXCEPT ![c] =
                         [@ EXCEPT !.step = "csv",
                                   !.headers = export_headers(default_headers_of(table_info),
                                                              unique_values),
                                   !.values = unique_values,
                                   !.wronglength = locals.wrong_length,
                                   !.errors = locals.errors]]
    /\ UNCHANGED <<file, statement_buffer, index, pc, tables, fs, export, recovery, arg>>

\* lines 181-192
WriteCsv(c) ==
    /\ pc = "exporting"
    /\ ret[c].step = "csv"
    /\ LET path == Path(bpath(ret[c].headers), csv_name(ret[c].table))
       IN  IF ret[c].values # <<>>
           THEN /\ fs' = write_file(fs, path,
                                    csv_records(ret[c].table, ret[c].headers, ret[c].values))
                /\ ret' = [ret EXCEPT ![c].step = "wrong_length", ![c].written = @ \cup {path}]
           ELSE /\ ret' = [ret EXCEPT ![c].step = "wrong_length"]
                /\ UNCHANGED fs
    /\ UNCHANGED <<file, statement_buffer, index, pc, tables, export, recovery, arg>>

\* lines 194-197
WriteWrongLength(c) ==
    /\ pc = "exporting"
    /\ ret[c].step = "wrong_length"
    /\ LET path == Path(bpath(ret[c].headers), wrong_length_name(ret[c].table))
       IN  IF ret[c].wronglength # <<>>
           THEN /\ fs' = write_file(fs, path, ret[c].wronglength)
                /\ ret' = [ret EXCEPT ![c].step = "errors", ![c].written = @ \cup {path}]
           ELSE /\ ret' = [ret EXCEPT ![c].step = "errors"]
                /\ UNCHANGED fs
    /\ UNCHANGED <<file, statement_buffer, index, pc, tables, export, recovery, arg>>

\* lines 199-202
AppendErrors(c) ==
    /\ pc = "exporting"
    /\ ret[c].step = "errors"
    /\ LET path == Path(bpath(ret[c].headers), errored_lines_name)
       IN  IF ret[c].errors # <<>>
           THEN /\ fs' = append_file(fs, path, ret[c].errors)
                /\ ret' = [ret EXCEPT ![c].step = "done", ![c].written = @ \cup {path}]
           ELSE /\ ret' = [ret EXCEPT ![c].step = "done"]
                /\ UNCHANGED fs
    /\ UNCHANGED <<file, statement_buffer, index, pc, tables, export, recovery, arg>>

NextPar ==
    \E c \in 1..2 :
        \/ Parse(c)
        \/ WriteCsv(c)
        \/ WriteWrongLength(c)
        \/ AppendErrors(c)

SpecPar == InitPar /\ [][NextPar]_vars

\* ---- SchemaAnalyzer.analyze ----
MaxDataRows == 4

MaxSample == 3

SchemaHeader == << <<"a">>, <<"b">> >>

\* the data records of the CSV: cells of every type, blank and null cells, a
\* record shorter and one longer than the header, and a blank line
SchemaRows ==
    { << <<"4","2">>, <<"a","b">> >>,
      << <<"a","b">>, <<"4","2">> >>,
      << <<"x","@","y",".","c","o">> >>,
      << <<"N","U","L","L">>, <<>> >>,
      << <<"4","2">>, <<"x","@","y",".","c","o">>, <<"a","b">> >>,
      <<>> }

InitSchema ==
    /\ PipelineIdle
    /\ pc = "call"
    /\ \E data \in SeqsUpTo(SchemaRows, MaxDataRows), analysis_rows \in 1..MaxSample :
          arg = [csv_rows |-> <<SchemaHeader>> \o data, analysis_rows |-> analysis_rows]
    /\ ret = None

Analyze ==
    /\ pc = "call"
    /\ pc' = "return"
    /\ ret' = analyze_rows(arg.csv_rows, arg.analysis_rows)
    /\ UNCHANGED <<file, statement_buffer, index, tables, fs, export, recovery, arg>>

NextSchema == Analyze

SpecSchema == InitSchema /\ [][NextSchema]_vars

(***************************************************************************)
(* The exporter followed by the repair tool: the dump is indexed, tables   *)
(* are exported, and SqlRepair is run once on a wrong-length file that the *)
(* export has written.                                                     *)
(***************************************************************************)
MaxStatements == 3

NameW == <<"w">>

\* CREATE TABLE name (        a statement of four lines, whose second column
\* a INT,                     is named second
\* second INT
\* );
CreateLines(name, second) ==
    << KwCreateTable \o name \o <<" ","(">>,
       <<"a"," ","I","N","T",",">>,
       second \o <<" ","I","N","T">>,
       <<")",";">> >>

\* INSERT INTO w VALUES (1,2),(3);
LineInsertW ==
    KwInsertInto \o NameW \o <<" ">> \o KwValues
        \o <<" ","(","1",",","2",")",",","(","3",")",";">>

\* INSERT INTO t VALUES (\',(7),3);
LineInsertQuote ==
    KwInsertInto \o NameT \o <<" ">> \o KwValues
        \o <<" ","(","\\","'",",","(","7",")",",","3",")",";">>

\* the statements the dump may hold, each as its lines
PipeStatements ==
    { CreateLines(NameT, <<"b">>), CreateLines(NameW, StrTable),
      <<LineInsert>>, <<LineInsertW>>, <<LineInsertQuote>> }

\* lines 39-60: the loop over the lines of the file
RECURSIVE index_lines(_, _, _)
index_lines(idx, buffer, lines) ==
    IF lines = <<>> THEN idx
    ELSE LET line == strip(Head(lines))
         IN  IF line = <<>> THEN index_lines(idx, buffer, Tail(lines))
             ELSE IF endswith(line, <<";">>)
             THEN index_lines(index_statement(idx, join(<<"\n">>, Append(buffer, line))),
                              <<>>, Tail(lines))
             ELSE index_lines(idx, Append(buffer, line), Tail(lines))

InitPipe ==
    /\ \E stmts \in SeqsUpTo(PipeStatements, MaxStatements) :
          /\ file = Flatten(stmts)
          /\ index = index_lines(<<>>, <<>>, Flatten(stmts))
          /\ tables = Keys(index_lines(<<>>, <<>>, Flatten(stmts)))
    /\ statement_buffer = <<>>
    /\ pc = "indexed"
    /\ fs = <<>>
    /\ export = NoCall
    /\ recovery = NoRecovery
    /\ arg = <<>>
    /\ ret = <<>>

\* the wrong-length files the export has written
WrongLengthFiles == {p \in DOMAIN fs : endswith(p.name, SuffixWrongLength)}

\* the repair tool is run once, after the exports
NextPipe ==
    \/ \E table_name \in Range(Keys(index)) : ~recovery.done /\ ProcessTable(table_name)
    \/ \E path \in WrongLengthFiles : ~recovery.done /\ RunRecovery(path)

SpecPipe == InitPipe /\ [][NextPipe]_vars

(***************************************************************************)
(* SqlParserPlusGUI.py: the window, its buttons and its worker threads.    *)
(* ret holds the state of the SqlParserGUI object: which widgets are       *)
(* enabled, the items of the table list and the selected ones, the parser  *)
(* it holds (the number of the worker that built it, 0 for None) and the   *)
(* worker threads that are running.  A click reaches the slot of a button  *)
(* only while the button is enabled.  A worker thread ends by emitting     *)
(* finished or error, and the slot connected to the signal runs in the GUI *)
(* thread; the two are one step.  The labels, the progress bar and the     *)
(* message boxes are left out.                                             *)
(***************************************************************************)
MaxWorkers == 5

\* the tables build_index finds in the selected file, when it finds any
GuiTables == <<NameT>>

\* the worker threads of each class that are running
ParserWorkers == {w \in ret.threads : w.class = "ParserWorker"}

ExportWorkers == {w \in ret.threads : w.class = "ExportWorker"}

InitGui ==
    /\ PipelineIdle
    /\ pc = "gui"
    /\ arg = <<>>
    /\ ret = [filepath |-> FALSE, parser |-> 0, output_path |-> FALSE,
              btn_select_file |-> TRUE, btn_index |-> FALSE, btn_export |-> FALSE,
              btn_select_all |-> FALSE, btn_deselect_all |-> FALSE,
              btn_open_folder |-> FALSE, search_bar |-> FALSE,
              table_list |-> <<>>, selected |-> {},
              threads |-> {}, started |-> 0]

\* lines 215-229, with a file chosen in the dialog
select_file ==
    /\ pc = "gui"
    /\ ret.btn_select_file
    /\ ret' = [ret EXCEPT !.filepath = TRUE, !.btn_index = TRUE, !.btn_export = FALSE,
                          !.btn_select_all = FALSE, !.btn_deselect_all = FALSE,
                          !.btn_open_folder = FALSE, !.search_bar = FALSE,
                          !.table_list = <<>>, !.selected = {}]
    /\ UNCHANGED <<file, statement_buffer, index, pc, tables, fs, export, recovery, arg>>

\* lines 231-238: a ParserWorker is created and started
start_indexing ==
    /\ pc = "gui"
    /\ ret.btn_index
    /\ ret.started < MaxWorkers
    /\ ret' = [ret EXCEPT !.btn_index = FALSE, !.btn_select_file = FALSE,
                          !.started = @ + 1,
                          !.threads = @ \cup {[id |-> ret.started + 1, class |-> "ParserWorker",
                                                 parser |-> 0, tables |-> {}]}]
    /\ UNCHANGED <<file, statement_buffer, index, pc, tables, fs, export, recovery, arg>>

\* lines 92-96 and 240-255: ParserWorker w emits finished(parser, tables)
on_parsing_finished(w, found) ==
    /\ pc = "gui"
    /\ w \in ParserWorkers
    /\ ret' = IF found # <<>>
              THEN [ret EXCEPT !.threads = @ \ {w}, !.parser = w.id,
                               !.btn_select_file = TRUE,
                               !.table_list = @ \o found,
                               !.btn_export = TRUE, !.btn_select_all = TRUE,
                               !.btn_deselect_all = TRUE, !.search_bar = TRUE]
              ELSE [ret EXCEPT !.threads = @ \ {w}, !.parser = w.id,
                               !.btn_select_file = TRUE, !.btn_index = TRUE]
    /\ UNCHANGED <<file, statement_buffer, index, pc, tables, fs, export, recovery, arg>>

\* lines 262-266; no item is hidden
select_all ==
    /\ pc = "gui"
    /\ ret.btn_select_all
    /\ ret' = [ret EXCEPT !.selected = 1..Len(ret.table_list)]
    /\ UNCHANGED <<file, statement_buffer, index, pc, tables, fs, export, recovery, arg>>

\* lines 268-269
deselect_all ==
    /\ pc = "gui"
    /\ ret.btn_deselect_all
    /\ ret' = [ret EXCEPT !.selected = {}]
    /\ UNCHANGED <<file, statement_buffer, index, pc, tables, fs, export, recovery, arg>>

\* lines 271-288: with no item selected the slot returns after its warning;
\* otherwise an ExportWorker is created with the parser and the selected tables
export_tables ==
    /\ pc = "gui"
    /\ ret.btn_export
    /\ ret.started < MaxWorkers
    /\ ret' = IF ret.selected = {} THEN ret
              ELSE [ret EXCEPT !.btn_export = FALSE, !.btn_select_file = FALSE,
                               !.btn_index = FALSE, !.btn_open_folder = FALSE,
                               !.search_bar = FALSE, !.started = @ + 1,
                               !.threads = @ \cup
                                   {[id |-> ret.started + 1, class |-> "ExportWorker",
                                     parser |-> ret.parser,
                                     tables |-> {ret.table_list[i] : i \in ret.selected}]}]
    /\ UNCHANGED <<file, statement_buffer, index, pc, tables, fs, export, recovery, arg>>

\* lines 111-118 and 293-303: ExportWorker w emits finished(output_path)
on_export_finished(w, output_path) ==
    /\ pc = "gui"
    /\ w \in ExportWorkers
    /\ ret' = [ret EXCEPT !.threads = @ \ {w}, !.output_path = output_path,
                          !.btn_export = TRUE, !.btn_select_file = TRUE,
                          !.btn_index = TRUE, !.search_bar = TRUE,
                          !.btn_open_folder = IF output_path THEN TRUE ELSE @]
    /\ UNCHANGED <<file, statement_buffer, index, pc, tables, fs, export, recovery, arg>>

\* lines 96-97, 119-120 and 305-311: a worker of either kind emits error
on_error(w) ==
    /\ pc = "gui"
    /\ w \in ret.threads
    /\ ret' = [ret EXCEPT !.threads = @ \ {w},
                          !.btn_export = TRUE, !.btn_select_file = TRUE,
                          !.btn_index = TRUE, !.search_bar = TRUE]
    /\ UNCHANGED <<file, statement_buffer, index, pc, tables, fs, export, recovery, arg>>

NextGui ==
    \/ select_file
    \/ start_indexing
    \/ \E w \in ParserWorkers, found \in {<<>>, GuiTables} : on_parsing_finished(w, found)
    \/ select_all
    \/ deselect_all
    \/ export_tables
    \/ \E w \in ExportWorkers, output_path \in BOOLEAN : on_export_finished(w, output_path)
    \/ \E w \in ret.threads : on_error(w)

SpecGui == InitGui /\ [][NextGui]_vars

(***************************************************************************)
(* build_index alone: the file is read to its end and no table is exported *)
(***************************************************************************)
NextIndex ==
    \/ \E raw \in FileLines : ReadLine(raw)
    \/ EndOfFile

SpecIndex == Init /\ [][NextIndex]_vars

(***************************************************************************)
(* Claims                                                                  *)
(***************************************************************************)
\* the k-th smallest element of a finite set of integers
Nth(S, k) == CHOOSE e \in S : Cardinality({x \in S : x <= e}) = k

\* the INSERT statements of the table the last process_table call exported
ExportedInserts == Entry(index, export.table).inserts

\* the rows tokenized from one INSERT statement
StatementRows(insert_stmt) ==
    IF values_regex(insert_stmt).some
    THEN parse_values_string(values_regex(insert_stmt).val) ELSE <<>>

\* every tokenized row of the exported table, in statement order, each with the
\* header list Active(statement, rows) names for its statement
TaggedRows(Active(_, _)) ==
    Flatten([i \in 1..Len(ExportedInserts) |->
        LET rows == StatementRows(ExportedInserts[i])
        IN  [k \in 1..Len(rows) |->
                [row |-> rows[k], headers |-> Active(ExportedInserts[i], rows)]]])

Fits(tagged) == Len(tagged.row) = Len(tagged.headers)

\* the CSV files on disk that carry the table's name
CsvPathsOf(table_name) == {p \in DOMAIN fs : p.name = csv_name(table_name)}

\* C1: after process_table(T) for a table with at least one kept row, the CSV of T
\* holds exactly one data row per distinct kept row, each with T appended, and no
\* kept row is missing.
C1_EveryKeptRowInCsv ==
    (export.found /\ export.all_values # <<>>) =>
        \E p \in CsvPathsOf(export.table) :
            /\ Range(Tail(fs[p])) = {row \o <<export.table>> : row \in Range(export.all_values)}
            /\ Len(Tail(fs[p])) = Cardinality(Range(export.all_values))

\* C2: repair returns nothing or a row of exactly len(schema) fields.
C2_RepairedRowHasSchemaLength ==
    (pc = "return" /\ ret.some) => Len(ret.val) = Len(arg.schema)

C2_Witness ==
    /\ pc = "return"
    /\ ret.some
    /\ Len(arg.bad_row_values) > Len(arg.schema)

\* some field scores against some column, at whatever offset aligns the two
SomePositiveScore(bad_row_values, schema) ==
    \E i \in 1..Len(bad_row_values), j \in 1..Len(schema) :
        calculate_match_score(bad_row_values[i], schema[j].type) > 0

\* C3: repair returns nothing when every field-to-column score at every offset is 0,
\* and returns a row when some offset has a positive score.
C3_NothingIffAllScoresZero ==
    pc = "return" => (ret.some <=> SomePositiveScore(arg.bad_row_values, arg.schema))

C3_Witness ==
    /\ pc = "return"
    /\ ~ret.some
    /\ arg.schema # <<>>
    /\ \E i \in 1..Len(arg.bad_row_values) :
          arg.bad_row_values[i] \notin {<<>>, <<"N","U","L","L">>}

\* the CSV after the run, beyond what it held before
AppendedRows ==
    LET csv == fs[derive_csv_path(recovery.path)]
    IN  SubSeq(csv, Len(recovery.csv_before) + 1, Len(csv))

FailedRecoveryLines ==
    IF failed_recovery_path(recovery.path) \in DOMAIN fs
    THEN fs[failed_recovery_path(recovery.path)] ELSE <<>>

Repairable(k) == repair(recovery.reparsed[k], recovery.schema).some

\* C4: every row re-tokenized from the wrong-length file is appended to the CSV when
\* repair returns a row and is written to the failed-recovery file when it returns
\* nothing: none is dropped, none goes to both.
C4_EveryReparsedRowRouted ==
    (recovery.done /\ recovery.error = "") =>
        LET n == Len(recovery.reparsed)
            good == {k \in 1..n : Repairable(k)}
            bad == {k \in 1..n : ~Repairable(k)}
        IN  /\ Len(AppendedRows) = Cardinality(good)
            /\ Len(FailedRecoveryLines) = Cardinality(bad)
            /\ \A j \in 1..Cardinality(good) :
                  SubSeq(AppendedRows[j], 1, Len(recovery.schema))
                      = repair(recovery.reparsed[Nth(good, j)], recovery.schema).val
            /\ \A j \in 1..Cardinality(bad) :
                  FailedRecoveryLines[j] = str_row(recovery.reparsed[Nth(bad, j)])

C4_Witness ==
    /\ recovery.done
    /\ recovery.error = ""
    /\ \E k \in 1..Len(recovery.reparsed) : Repairable(k)
    /\ \E k \in 1..Len(recovery.reparsed) : ~Repairable(k)

\* the header list the code validates a statement's rows against
CodeActive(insert_stmt, rows) == active_headers_of(insert_stmt, export.default_headers, rows)

\* C5: every row tokenized from an INSERT statement goes to the kept list when its
\* length equals the length of that statement's active header and to the
\* wrong-length list otherwise, and to no other place.
C5_RowsPartitionedByActiveHeader ==
    export.found =>
        LET tagged == TaggedRows(CodeActive)
            kept == SelectSeq(tagged, Fits)
            bad == SelectSeq(tagged, LAMBDA t : ~Fits(t))
        IN  /\ export.all_values = [k \in 1..Len(kept) |-> kept[k].row]
            /\ export.wrong_length = [k \in 1..Len(bad) |-> str_row(bad[k].row)]

C5_Witness ==
    /\ export.found
    /\ Len(ExportedInserts) >= 2
    /\ export.all_values # <<>>
    /\ export.wrong_length # <<>>
    /\ \E i, j \in 1..Len(ExportedInserts) :
          CodeActive(ExportedInserts[i], StatementRows(ExportedInserts[i]))
              # CodeActive(ExportedInserts[j], StatementRows(ExportedInserts[j]))

\* the quoted state and the depth after the first i characters of s, by the rule of
\* the claim: a quote toggles unless the character before it is a buffered backslash
\* (one read inside a group), and parentheses count only outside a quoted literal
RECURSIVE RefState(_, _)
RefState(s, i) ==
    IF i = 0 THEN [q |-> FALSE, d |-> 0]
    ELSE LET prev == RefState(s, i - 1)
             escaped == i > 1 /\ s[i - 1] = "\\" /\ prev.d > 0
             q == IF s[i] = "'" /\ ~escaped THEN ~prev.q ELSE prev.q
         IN  [q |-> q,
              d |-> IF ~q /\ s[i] = "(" THEN prev.d + 1
                    ELSE IF ~q /\ s[i] = ")" THEN prev.d - 1
                    ELSE prev.d]

Balanced(s) ==
    /\ \A i \in 1..Len(s) : RefState(s, i).d >= 0
    /\ RefState(s, Len(s)).d = 0

\* where the top-level groups of s open and close
GroupOpens(s) == {i \in 1..Len(s) : s[i] = "(" /\ ~RefState(s, i).q /\ RefState(s, i).d = 1}

GroupCloses(s) == {i \in 1..Len(s) : s[i] = ")" /\ ~RefState(s, i).q /\ RefState(s, i).d = 0}

\* C6: for a VALUES fragment with balanced parentheses the tokenizer returns one row
\* per top-level group, in input order; parentheses inside a quoted literal are not
\* structural, and a quote toggles the quoted state unless the preceding buffered
\* character is a backslash.
C6_OneRowPerTopLevelGroup ==
    pc = "scanning" =>
        /\ ret.in_string = RefState(arg, Len(arg)).q
        /\ Balanced(arg) =>
              /\ Len(ret.rows) = Cardinality(GroupOpens(arg))
              /\ \A k \in 1..Len(ret.rows) :
                    ret.rows[k] = split_fields(SubSeq(arg, Nth(GroupOpens(arg), k) + 1,
                                                      Nth(GroupCloses(arg), k) - 1))

C6_Witness ==
    /\ pc = "scanning"
    /\ Balanced(arg)
    /\ ret.rows # <<>>
    /\ \E i \in 1..Len(arg) : arg[i] \in {"(", ")"} /\ RefState(arg, i).q

\* the columns the entries of the block define, in definition order
DefinedColumns(defs) == Flatten([i \in 1..Len(defs) |-> defs[i].column])

\* C7: header extraction yields the leading identifier of every column definition, in
\* definition order, without the PRIMARY KEY entries and the nested parentheses,
\* whether the definitions are on one line or on separate lines.
C7_HeadersAreDefinedColumns ==
    pc = "return" => ret = DefinedColumns(arg.defs)

\* the column list of INSERT INTO t (col1, col2, ...) VALUES: what stands between the
\* last '(' and the ')' that ends the text before the first VALUES
SqlInlineColumns(insert_stmt) ==
    LET head == rstrip(SubSeq(insert_stmt, 1, Find(insert_stmt, KwValues, 1) - 1))
        opens == Positions(head, "(")
    IN  IF Find(insert_stmt, KwValues, 1) > 0 /\ head # <<>> /\ head[Len(head)] = ")"
           /\ opens # {}
        THEN Option(inline_headers(SubSeq(head, Last(opens) + 1, Len(head) - 1)))
        ELSE None

\* the header list the specification gives a statement: the inline list when the
\* statement carries one, else the CREATE-derived (or synthesized) list
SpecActive(insert_stmt, rows) ==
    IF SqlInlineColumns(insert_stmt).some THEN SqlInlineColumns(insert_stmt).val
    ELSE IF export.default_headers = <<>> /\ rows # <<>>
    THEN [i \in 1..Len(rows[1]) |-> column_name(i)]
    ELSE export.default_headers

\* C8: the rows of an INSERT statement with an inline column list are validated
\* against that list, the rows of a statement without one against the CREATE-derived
\* header.
C8_InlineListValidatesItsStatement ==
    export.found =>
        LET kept == SelectSeq(TaggedRows(SpecActive), Fits)
        IN  export.all_values = [k \in 1..Len(kept) |-> kept[k].row]

\* C9: the header row of an exported CSV is the header list the kept rows were
\* validated against, followed by 'table'; without CREATE statement and inline list
\* it is column_1..column_N for a first row of N fields.
C9_HeaderRowIsValidatedHeader ==
    (export.found /\ export.all_values # <<>>) =>
        \E p \in CsvPathsOf(export.table) :
            \A t \in Range(SelectSeq(TaggedRows(CodeActive), Fits)) :
                fs[p][1] = t.headers \o <<StrTable>>

\* the statements of a dump: the stripped non-empty lines up to each line ending in ';'
DumpStatements(lines) ==
    LET stripped == [i \in 1..Len(lines) |-> strip(lines[i])]
        text == SelectSeq(stripped, LAMBDA l : l # <<>>)
        ends == {i \in 1..Len(text) : endswith(text[i], <<";">>)}
        From(e) == IF {x \in ends : x < e} = {} THEN 1 ELSE Last({x \in ends : x < e}) + 1
    IN  [k \in 1..Cardinality(ends) |->
            join(<<"\n">>, SubSeq(text, From(Nth(ends, k)), Nth(ends, k)))]

\* the table each statement names: a CREATE TABLE name, else an INSERT INTO name
StatementTables(lines) ==
    Flatten([k \in 1..Len(DumpStatements(lines)) |->
        LET stmt == DumpStatements(lines)[k]
        IN  IF create_table_regex(stmt).some THEN <<create_table_regex(stmt).val>>
            ELSE IF insert_regex(stmt).some THEN <<insert_regex(stmt).val>>
            ELSE <<>>])

\* names without its repetitions, each name where it first stands
FirstSeen(names) ==
    LET firsts == {i \in 1..Len(names) : \A j \in 1..(i - 1) : names[j] # names[i]}
    IN  [k \in 1..Cardinality(firsts) |-> names[Nth(firsts, k)]]

\* C10: build_index returns each table name once, compared case-sensitively, in the
\* order in which the tables are first seen in a CREATE or INSERT statement.
C10_TablesInFirstDiscoveryOrder ==
    pc = "indexed" => tables = FirstSeen(StatementTables(file))

C10_Witness ==
    /\ pc = "indexed"
    /\ Len(tables) = 2
    /\ lower_str(tables[1]) = lower_str(tables[2])
    /\ Len(StatementTables(file)) = 3

\* the score the specification gives one field on one column
RefFieldScore(value, type) ==
    IF value = <<>> \/ lower_str(value) = StrNull THEN 0
    ELSE IF type = "email" THEN (IF email_regex_match(value) THEN 10 ELSE 0)
    ELSE IF type = "integer" THEN (IF isdigit(value) THEN 5 ELSE 0)
    ELSE IF type = "string" THEN 1
    ELSE 0

\* the total score of the row placed at offset k: field i (from 0) on column i + k,
\* summed over the fields from n down
RECURSIVE RefTotalUpTo(_, _, _, _)
RefTotalUpTo(bad_row_values, schema, k, n) ==
    IF n = 0 THEN 0
    ELSE (IF 0 <= n - 1 + k /\ n - 1 + k < Len(schema)
          THEN RefFieldScore(bad_row_values[n], schema[n + k].type) ELSE 0)
         + RefTotalUpTo(bad_row_values, schema, k, n - 1)

RefTotal(bad_row_values, schema, k) ==
    RefTotalUpTo(bad_row_values, schema, k, Len(bad_row_values))

\* the smallest offset of [-len(row), len(schema)] whose total score is maximal
FirstBestOffset(bad_row_values, schema) ==
    LET offsets == (0 - Len(bad_row_values))..Len(schema)
        best == {k \in offsets : \A m \in offsets :
                    RefTotal(bad_row_values, schema, m) <= RefTotal(bad_row_values, schema, k)}
    IN  First(best)

\* the row with input field j - k at position j (from 0) and NULL elsewhere
RefRowAt(bad_row_values, schema, k) ==
    [p \in 1..Len(schema) |->
        LET j == p - 1
        IN  IF 0 <= j - k /\ j - k < Len(bad_row_values)
            THEN bad_row_values[j - k + 1] ELSE <<"N","U","L","L">>]

\* C19: a returned row is the input aligned at the smallest offset whose total score
\* (10 email on email, 5 digits on integer, 1 non-empty non-null on string, else 0)
\* is maximal; [x@y.co, 42] against [email, integer] scores 15 at offset 0 and is
\* returned as it is.
C19_AlignedAtFirstBestOffset ==
    (pc = "return" /\ ret.some) =>
        /\ RefTotal(arg.bad_row_values, arg.schema,
                    FirstBestOffset(arg.bad_row_values, arg.schema)) > 0
        /\ ret.val = RefRowAt(arg.bad_row_values, arg.schema,
                              FirstBestOffset(arg.bad_row_values, arg.schema))

\* the example of the claim
C19_Witness ==
    /\ pc = "return"
    /\ arg.bad_row_values = << <<"x","@","y",".","c","o">>, <<"4","2">> >>
    /\ [i \in 1..Len(arg.schema) |-> arg.schema[i].type] = <<"email", "integer">>
    /\ FirstBestOffset(arg.bad_row_values, arg.schema) = 0
    /\ RefTotal(arg.bad_row_values, arg.schema, 0) = 15
    /\ ret = Option(arg.bad_row_values)

\* a row that scores the same, and best, at two offsets that give different rows
C19_TieWitness ==
    /\ pc = "return"
    /\ ret.some
    /\ \E k \in (0 - Len(arg.bad_row_values))..Len(arg.schema) :
          /\ k > FirstBestOffset(arg.bad_row_values, arg.schema)
          /\ RefTotal(arg.bad_row_values, arg.schema, k)
                = RefTotal(arg.bad_row_values, arg.schema,
                           FirstBestOffset(arg.bad_row_values, arg.schema))
          /\ RefRowAt(arg.bad_row_values, arg.schema, k) # ret.val

\* the offset repair has chosen when it returns a row
ChosenOffset ==
    best_alignment(arg.bad_row_values, arg.schema, 0 - Len(arg.bad_row_values),
                   [best_offset |-> 0, highest_score |-> -1]).best_offset

\* C20: in a returned row with chosen offset k, position j holds input field j - k
\* when 0 <= j - k < len(row) and the string NULL otherwise.
C20_FieldsPlacedAtOffset ==
    (pc = "return" /\ ret.some) =>
        /\ Len(ret.val) = Len(arg.schema)
        /\ \A j \in 0..(Len(arg.schema) - 1) :
              ret.val[j + 1] =
                  IF 0 <= j - ChosenOffset /\ j - ChosenOffset < Len(arg.bad_row_values)
                  THEN arg.bad_row_values[j - ChosenOffset + 1]
                  ELSE <<"N","U","L","L">>

\* a returned row with a padded position, and an input field that fell out of range
C20_Witness ==
    /\ pc = "return"
    /\ ret.some
    /\ \E j \in 0..(Len(arg.schema) - 1) :
          ~(0 <= j - ChosenOffset /\ j - ChosenOffset < Len(arg.bad_row_values))
    /\ \E i \in 0..(Len(arg.bad_row_values) - 1) :
          /\ ~(0 <= i + ChosenOffset /\ i + ChosenOffset < Len(arg.schema))
          /\ arg.bad_row_values[i + 1] # <<"N","U","L","L">>

\* the path with its suffix _wrong_length.txt replaced by .csv
CompanionCsv(path) ==
    IF endswith(path.name, SuffixWrongLength)
    THEN Path(path.dir,
              SubSeq(path.name, 1, Len(path.name) - Len(SuffixWrongLength)) \o SuffixCsv)
    ELSE path

\* C17: a repair started on a wrong-length path that names no file, or whose companion
\* CSV is missing, fails with a not-found error and changes no file; with both files
\* on disk it does not fail that way.
C17_MissingFileFailsBeforeProcessing ==
    [][recovery'.done =>
          LET missing == \/ recovery'.path \notin DOMAIN fs
                         \/ CompanionCsv(recovery'.path) \notin DOMAIN fs
          IN  /\ missing <=> recovery'.error = "FileNotFoundError"
              /\ missing => fs' = fs]_vars

\* the wrong-length file is on disk and its CSV is not
C17_Witness ==
    /\ recovery.done
    /\ recovery.error = "FileNotFoundError"
    /\ recovery.path \in DOMAIN fs
    /\ CompanionCsv(recovery.path) \notin DOMAIN fs

\* the wrong-length path names no file
C17_WitnessNoInput ==
    /\ recovery.done
    /\ recovery.error = "FileNotFoundError"
    /\ recovery.path \notin DOMAIN fs

\* the table a CSV is named after: what stands between " - " and .csv
TableOfCsv(csv_path) ==
    LET dash == Find(csv_path.name, <<" ","-"," ">>, 1)
    IN  SubSeq(csv_path.name, dash + 3, Len(csv_path.name) - Len(SuffixCsv))

\* the rows of the run that repair gives a row for, repaired, in source order
RepairedInOrder(rec) ==
    LET good == {k \in 1..Len(rec.reparsed) : repair(rec.reparsed[k], rec.schema).some}
    IN  [j \in 1..Cardinality(good) |-> repair(rec.reparsed[Nth(good, j)], rec.schema).val]

\* C18: run_recovery only appends to the CSV: what the CSV held stays an unchanged
\* prefix, the recovered rows follow it in the order of their source rows, and a run
\* that recovers no row leaves the CSV as it was.
C18_CsvOnlyAppended ==
    [][recovery'.done =>
          /\ \A p \in DOMAIN fs :
                /\ p \in DOMAIN fs'
                /\ endswith(p.name, SuffixCsv) =>
                      /\ Len(fs'[p]) >= Len(fs[p])
                      /\ SubSeq(fs'[p], 1, Len(fs[p])) = fs[p]
                      /\ p # CompanionCsv(recovery'.path) => fs'[p] = fs[p]
          /\ recovery'.error # "" => fs' = fs
          /\ recovery'.error = "" =>
                LET csv == CompanionCsv(recovery'.path)
                    rows == RepairedInOrder(recovery')
                IN  fs'[csv] = fs[csv] \o [j \in 1..Len(rows) |-> rows[j] \o <<TableOfCsv(csv)>>]]_vars

\* a run on a CSV with data rows that appends two different rows
C18_Witness ==
    /\ recovery.done
    /\ recovery.error = ""
    /\ Len(recovery.csv_before) > 1
    /\ Len(RepairedInOrder(recovery)) >= 2
    /\ RepairedInOrder(recovery)[1] # RepairedInOrder(recovery)[2]
    /\ Len(fs[CompanionCsv(recovery.path)]) = Len(recovery.csv_before) + Len(RepairedInOrder(recovery))

\* a run that recovers no row
C18_WitnessNothingRecovered ==
    /\ recovery.done
    /\ recovery.error = ""
    /\ recovery.reparsed # <<>>
    /\ RepairedInOrder(recovery) = <<>>
    /\ fs[CompanionCsv(recovery.path)] = recovery.csv_before

\* C16: once build_index has returned, no process_table call, for an indexed or an
\* unknown table name, changes the index: the table names, every create statement
\* and every insert list stay as they are.
C16_IndexReadOnlyAfterIndexing ==
    [][pc = "indexed" =>
          /\ Keys(index') = Keys(index)
          /\ \A i \in 1..Len(index) :
                /\ index'[i].create = index[i].create
                /\ index'[i].inserts = index[i].inserts
          /\ Keys(index') = tables']_vars

\* a call for an unknown table after a call that exported an indexed one
C16_Witness ==
    /\ pc = "indexed"
    /\ index # <<>>
    /\ export.table = UnknownTable
    /\ ~export.found
    /\ fs # <<>>

\* the rows one INSERT statement contributes to the kept list
KeptOf(insert_stmt) ==
    {row \in Range(StatementRows(insert_stmt)) :
        Len(row) = Len(CodeActive(insert_stmt, StatementRows(insert_stmt)))}

\* C12: the unique kept rows of process_table are a function of the set of INSERT
\* statements of the table, whatever their order and however often each is repeated:
\* the union of the rows each statement keeps, each row once.
C12_UniqueRowsDependOnStatementSet ==
    export.found =>
        /\ Range(export.unique_values) = UNION {KeptOf(stmt) : stmt \in Range(ExportedInserts)}
        /\ \A i, j \in 1..Len(export.unique_values) :
              export.unique_values[i] = export.unique_values[j] => i = j

\* a table with a repeated statement, and a row kept by more than one statement
C12_Witness ==
    /\ export.found
    /\ Len(ExportedInserts) > Cardinality(Range(ExportedInserts))
    /\ Cardinality(Range(ExportedInserts)) >= 2
    /\ export.unique_values # <<>>
    /\ Len(export.all_values) > Len(export.unique_values)

\* a row as a parenthesized, comma-joined list of its fields in single quotes
SerializeRow(row) ==
    <<"(">> \o join(<<",">>, [i \in 1..Len(row) |-> <<"'">> \o row[i] \o <<"'">>]) \o <<")">>

SerializeRows(rows) == join(<<",">>, [k \in 1..Len(rows) |-> SerializeRow(rows[k])])

FieldCounts(rows) == [k \in 1..Len(rows) |-> Len(rows[k])]

\* C13: for a fragment with balanced parentheses (and no semicolon), tokenizing,
\* writing each row back as a parenthesized comma-joined list of single-quoted fields
\* and tokenizing again gives rows with the same field counts.
C13_FieldCountRoundTrips ==
    (pc = "scanning" /\ Balanced(arg)) =>
        FieldCounts(parse_values_string(SerializeRows(ret.rows))) = FieldCounts(ret.rows)

\* sub stands in s, character for character
Contains(s, sub) ==
    \E i \in 1..(Len(s) - Len(sub) + 1) : SubSeq(s, i, i + Len(sub) - 1) = sub

FirstChars(s, n) == SubSeq(s, 1, Min(n, Len(s)))

\* the last call of the log
LastCall == ret[Len(ret)]

\* the statements of the exported table that did not raise in the last call, in order
GoodInserts ==
    LET good == {i \in 1..Len(ExportedInserts) : i \notin LastCall.raising}
    IN  [k \in 1..Cardinality(good) |-> ExportedInserts[Nth(good, k)]]

\* the same for the statements that raised
BadInserts ==
    LET bad == {i \in 1..Len(ExportedInserts) : i \in LastCall.raising}
    IN  [k \in 1..Cardinality(bad) |-> ExportedInserts[Nth(bad, k)]]

\* C11: a statement that raises leaves one error entry with its first 100 characters
\* (and no more of it); every other statement of the table is processed as it is
\* without the raising ones, and the rows kept from them reach the writer and the CSV:
\* the export is the export of the table without its raising statements.
C11_BadStatementDoesNotAbortExport ==
    (ret # <<>> /\ export.found) =>
        LET rest == process_table_locals([Entry(index, export.table)
                                             EXCEPT !.inserts = GoodInserts])
            dir == bpath(export.headers)
        IN  /\ Len(export.errors) = Len(BadInserts)
            /\ \A k \in 1..Len(BadInserts) :
                  /\ Contains(export.errors[k], FirstChars(BadInserts[k], 100))
                  /\ Len(BadInserts[k]) > 100 =>
                        ~Contains(export.errors[k], FirstChars(BadInserts[k], 101))
            /\ export.all_values = rest.all_values
            /\ export.wrong_length = rest.wrong_length
            /\ Range(export.unique_values) = Range(rest.all_values)
            /\ export.unique_values # <<>> =>
                  /\ Path(dir, csv_name(export.table)) \in DOMAIN fs
                  /\ Range(Tail(fs[Path(dir, csv_name(export.table))]))
                        = {row \o <<export.table>> :
                              row \in {r \in Range(rest.all_values) :
                                          Len(r) = Len(export.headers)}}
            /\ export.wrong_length # <<>> =>
                  /\ Path(dir, wrong_length_name(export.table)) \in DOMAIN fs
                  /\ fs[Path(dir, wrong_length_name(export.table))] = rest.wrong_length

\* the first statement, longer than 100 characters, raises; the next one is processed
\* and its kept row is in the CSV
C11_Witness ==
    /\ ret # <<>>
    /\ export.found
    /\ LastCall.raising = {1}
    /\ Len(ExportedInserts) = 2
    /\ Len(ExportedInserts[1]) > 100
    /\ Len(export.errors) = 1
    /\ export.all_values # <<>>
    /\ \E p \in CsvPathsOf(export.table) : Len(fs[p]) > 1

\* the error entries of all the calls made so far, in call order
AllErrorEntries == Flatten([i \in 1..Len(ret) |-> ret[i].errors])

ErroredLinesPaths == {p \in DOMAIN fs : p.name = errored_lines_name}

\* C15: the error entries of all the tables of the dump accumulate in one shared
\* <dump-stem>_ErroredLines.txt: after any sequence of process_table calls that one
\* file holds the entries of every call that had errors, in call order.
C15_OneSharedErroredLinesFile ==
    AllErrorEntries # <<>> =>
        /\ Cardinality(ErroredLinesPaths) = 1
        /\ \A p \in ErroredLinesPaths : fs[p] = AllErrorEntries

\* the files both calls have written
WrittenByBoth == ret[1].written \cap ret[2].written

\* C14 as stated: in any interleaving of two process_table calls on distinct tables
\* no file is written by both calls.
C14_NoFileWrittenByBoth ==
    pc = "exporting" => WrittenByBoth = {}

\* C14, amended: the only file two process_table calls on distinct tables both write
\* is the errored-lines file, which each opens for appending; the CSV and the
\* wrong-length file a call writes carry its own table's name and hold what the call
\* computed.
C14_OnlyErroredLinesShared ==
    pc = "exporting" =>
        /\ \A p \in WrittenByBoth : p.name = errored_lines_name
        /\ \A c \in 1..2 : \A p \in ret[c].written :
              \/ p.name = errored_lines_name
              \/ /\ p.name = csv_name(ret[c].table)
                 /\ fs[p] = csv_records(ret[c].table, ret[c].headers, ret[c].values)
              \/ /\ p.name = wrong_length_name(ret[c].table)
                 /\ fs[p] = ret[c].wronglength
        /\ (ret[1].step = "done" /\ ret[2].step = "done") =>
              \A p \in WrittenByBoth :
                  fs[p] \in {ret[1].errors \o ret[2].errors, ret[2].errors \o ret[1].errors}

\* both calls are done, both have appended to the errored-lines file, and one has
\* written its CSV and its wrong-length file
C14_Witness ==
    /\ pc = "exporting"
    /\ ret[1].step = "done"
    /\ ret[2].step = "done"
    /\ WrittenByBoth # {}
    /\ \E c \in 1..2 : Cardinality(ret[c].written) = 3

\* the insert list and the create statement of a table name, empty for a name the
\* index does not hold
InsertsOf(idx, name) == IF HasTable(idx, name) THEN Entry(idx, name).inserts ELSE <<>>

CreateOf(idx, name) == IF HasTable(idx, name) THEN Entry(idx, name).create ELSE <<>>

\* the statements of the dump that are INSERT INTO name and no CREATE TABLE
InsertStatementsOf(lines, name) ==
    SelectSeq(DumpStatements(lines),
              LAMBDA stmt : /\ ~create_table_regex(stmt).some
                            /\ insert_regex(stmt).some
                            /\ insert_regex(stmt).val = name)

\* C21: build_index joins the non-empty lines up to and including a line ending in
\* ';' into one statement and handles it once: a CREATE TABLE name statement becomes
\* (overwriting) the create statement of name and joins no insert list, even when it
\* also holds INSERT INTO; otherwise an INSERT INTO name statement goes to the end of
\* name's insert list, so that the lists are in file order; otherwise the index stays
\* as it is.  The statement buffer is empty after every line ending in ';'.
C21_StatementHandledOnce ==
    [][(pc = "indexing" /\ file' # file) =>
        LET line == strip(file'[Len(file')])
            stmt == join(<<"\n">>, Append(statement_buffer, line))
            names == Range(Keys(index)) \cup Range(Keys(index'))
            SameInserts(S) == \A n \in S : InsertsOf(index', n) = InsertsOf(index, n)
            SameCreates(S) == \A n \in S : CreateOf(index', n) = CreateOf(index, n)
            SameKeys(S) == \A n \in S : HasTable(index', n) = HasTable(index, n)
        IN  /\ \A n \in names : InsertsOf(index', n) = InsertStatementsOf(file', n)
            /\ IF line = <<>>
               THEN index' = index /\ statement_buffer' = statement_buffer
               ELSE IF ~endswith(line, <<";">>)
               THEN index' = index /\ statement_buffer' = Append(statement_buffer, line)
               ELSE /\ statement_buffer' = <<>>
                    /\ IF create_table_regex(stmt).some
                       THEN LET name == create_table_regex(stmt).val
                            IN  /\ HasTable(index', name)
                                /\ CreateOf(index', name) = stmt
                                /\ SameInserts(names)
                                /\ SameCreates(names \ {name})
                                /\ SameKeys(names \ {name})
                       ELSE IF insert_regex(stmt).some
                       THEN LET name == insert_regex(stmt).val
                            IN  /\ HasTable(index', name)
                                /\ InsertsOf(index', name) =
                                       Append(InsertsOf(index, name), stmt)
                                /\ SameInserts(names \ {name})
                                /\ SameCreates(names)
                                /\ SameKeys(names \ {name})
                       ELSE index' = index]_vars

\* a CREATE TABLE statement that also holds INSERT INTO has replaced an earlier
\* create statement of the table and has joined no insert list
C21_Witness ==
    /\ pc = "indexing"
    /\ Len(file) = 3
    /\ statement_buffer = <<>>
    /\ Len(index) = 1
    /\ create_table_regex(index[1].create).some
    /\ insert_regex(index[1].create).some
    /\ index[1].inserts = <<>>
    /\ create_table_regex(strip(file[1])).some
    /\ endswith(strip(file[1]), <<";">>)
    /\ index[1].create # strip(file[1])

\* two different statements in the insert list of one table, in file order
C21_WitnessInsertOrder ==
    /\ pc = "indexing"
    /\ \E i \in 1..Len(index) :
          /\ Len(index[i].inserts) = 2
          /\ index[i].inserts[1] # index[i].inserts[2]
          /\ index[i].inserts = <<strip(file[1]), strip(file[2])>>

\* s with the character c inserted after its first p characters
InsertAt(s, p, c) == SubSeq(s, 1, p) \o <<c>> \o SubSeq(s, p + 1, Len(s))

\* the positions of s outside every group and outside every quoted literal
TopLevelGaps(s) == {p \in 0..Len(s) : RefState(s, p).d = 0 /\ ~RefState(s, p).q}

\* C22: a character other than a parenthesis that stands outside every group is
\* ignored: inserting one before the first group, between two groups or after the
\* last one changes neither the number of rows nor any row.
C22_DepthZeroCharactersIgnored ==
    (pc = "scanning" /\ Balanced(arg)) =>
        \A p \in TopLevelGaps(arg) : \A c \in ValuesAlphabet \ {"(", ")"} :
            parse_values_string(InsertAt(arg, p, c)) = parse_values_string(arg)

\* the opening parenthesis of the group that closes at position c of s
OpenOf(s, c) == Last({o \in GroupOpens(s) : o < c})

\* the rows of the groups of s that are closed, in input order
ClosedGroupRows(s) ==
    [k \in 1..Cardinality(GroupCloses(s)) |->
        split_fields(SubSeq(s, OpenOf(s, Nth(GroupCloses(s), k)) + 1,
                            Nth(GroupCloses(s), k) - 1))]

IsPrefix(p, q) == Len(p) <= Len(q) /\ SubSeq(q, 1, Len(p)) = p

\* C23: on a VALUES fragment with unbalanced parentheses the tokenizer returns the
\* rows of the top-level groups that are closed, up to and including the last one,
\* and nothing for the unfinished group, whose buffer is dropped; a row once
\* produced is never removed.
C23_UnfinishedGroupDropped ==
    [][pc = "scanning" =>
          /\ IsPrefix(ret.rows, ret'.rows)
          /\ ~Balanced(arg') =>
                /\ ret'.rows = ClosedGroupRows(arg')
                /\ GroupCloses(arg') # {} =>
                      ret'.rows = parse_values_string(SubSeq(arg', 1, Last(GroupCloses(arg'))))
                /\ GroupCloses(arg') = {} => ret'.rows = <<>>]_vars

\* a row of a closed group, then a group that is open with characters in its buffer
C23_Witness ==
    /\ pc = "scanning"
    /\ ~Balanced(arg)
    /\ Len(ret.rows) = 1
    /\ ret.rows[1] # <<>>
    /\ ret.paren_level > 0
    /\ ret.char_buffer # <<>>
    /\ Len(arg) = MaxValuesLen

\* the type the claim gives one value, none for an empty or null one
RefValueType(v) ==
    IF v = <<>> \/ lower_str(v) = StrNull THEN <<>>
    ELSE IF \A i \in 1..Len(v) : v[i] \in Digits THEN <<"integer">>
    ELSE IF email_regex_match(v) THEN <<"email">>
    ELSE <<"string">>

\* the types of the classifiable values of column j of the records rows
RefColumnTypes(rows, j) ==
    Flatten([i \in 1..Len(rows) |-> IF Len(rows[i]) >= j THEN RefValueType(rows[i][j]) ELSE <<>>])

\* the type seen most often, and of several such the one seen first
RefMajority(types) ==
    IF types = <<>> THEN "string"
    ELSE LET Seen(t) == First({i \in 1..Len(types) : types[i] = t})
         IN  CHOOSE t \in Range(types) :
                 \A u \in Range(types) :
                     \/ Count(types, t) > Count(types, u)
                     \/ Count(types, t) = Count(types, u) /\ Seen(t) <= Seen(u)

\* the data records analyze samples
SampledRows(a) == SubSeq(a.csv_rows, 2, Min(Len(a.csv_rows), a.analysis_rows + 1))

\* C24: the type of each column is the type (integer for digits only, email for a
\* local@domain.tld match, else string) seen most often among the non-empty,
\* non-null values of the first analysis_rows data records, the type seen first
\* winning a tie and a column without such a value being string; the records after
\* the sample do not count.
C24_ColumnTypeIsSampledMajority ==
    pc = "return" =>
        /\ Len(ret) = Len(arg.csv_rows[1])
        /\ \A j \in 1..Len(ret) :
              /\ ret[j].name = arg.csv_rows[1][j]
              /\ ret[j].type = RefMajority(RefColumnTypes(SampledRows(arg), j))

\* a tie in the sample that the type seen first wins, and a record after the
\* sample that would have decided it the other way
C24_Witness ==
    /\ pc = "return"
    /\ Len(arg.csv_rows) > arg.analysis_rows + 1
    /\ LET types == RefColumnTypes(SampledRows(arg), 1)
       IN  /\ Len(types) = 2
           /\ types[1] # types[2]
           /\ ret[1].type = types[1]
           /\ RefMajority(RefColumnTypes(Tail(arg.csv_rows), 1)) = types[2]

\* C25: the tokenizer of the repair pass and the tokenizer of the exporter split
\* rows by the same rule: on every input string they return the same rows.
C25_TokenizersAgree ==
    pc = "scanning" =>
        /\ repair_parse_values_string(arg) = ret.rows
        /\ repair_parse_values_string(arg) = parse_values_string(arg)

\* an input that the repair pass strips and shortens by its semicolon before it
\* scans it, and that holds a row
C25_Witness ==
    /\ pc = "scanning"
    /\ arg # <<>>
    /\ IsSpace(arg[1])
    /\ arg[Len(arg)] = ";"
    /\ ret.rows # <<>>
    /\ ret.rows[1] # <<>>
    /\ repair_parse_values_string(arg) = ret.rows

\* C26: no malformed row is lost between the export and the repair: when
\* run_recovery processes a wrong-length file that process_table wrote, each of its
\* rows is tokenized again into at least one row, which then is appended to the CSV
\* or written to the failed-recovery file.
C26_NoMalformedRowLost ==
    (recovery.done /\ recovery.error = "") =>
        /\ \A k \in 1..Len(fs[recovery.path]) : reparse_line(fs[recovery.path][k]) # <<>>
        /\ Len(recovery.recovered_rows) + Len(recovery.still_failed)
              >= Len(fs[recovery.path])

\* the CSV files on disk
CsvFiles == {p \in DOMAIN fs : endswith(p.name, SuffixCsv)}

\* C27: every data row that process_table writes to a CSV has as many fields as
\* the header row of that CSV, whatever the header list is, one that holds a column
\* named table included.
C27_ExportedRowsMatchHeader ==
    ~recovery.done =>
        \A p \in CsvFiles : \A k \in 2..Len(fs[p]) : Len(fs[p][k]) = Len(fs[p][1])

\* C28: every row that run_recovery appends to a CSV that process_table produced
\* has as many fields as the header row of that CSV.
C28_RecoveredRowsMatchHeader ==
    (recovery.done /\ recovery.error = "") =>
        LET csv == fs[derive_csv_path(recovery.path)]
        IN  \A k \in (Len(recovery.csv_before) + 1)..Len(csv) :
                Len(csv[k]) = Len(csv[1])

\* C29: in the GUI at most one ExportWorker is running at any time, whatever the
\* clicks and the worker events are: no export is started while an earlier one is
\* still running, so no table is exported by two workers at once.
C29_AtMostOneExportWorker ==
    pc = "gui" =>
        /\ Cardinality(ExportWorkers) <= 1
        /\ \A v, w \in ExportWorkers : v # w => v.tables \cap w.tables = {}

\* the lines of the dump up to and including the last line that ends in ';'
TerminatedPrefix(lines) ==
    LET ends == {i \in 1..Len(lines) : endswith(strip(lines[i]), <<";">>)}
    IN  IF ends = {} THEN <<>> ELSE SubSeq(lines, 1, Last(ends))

\* C30: the lines after the last line ending in ';' do not reach the index: a line
\* that ends no statement leaves the index as it is, and at the end of the file
\* build_index returns with the table list, the create statements and the insert
\* lists as they were after the last terminated statement.
C30_UnterminatedTailIgnored ==
    [][pc = "indexing" =>
          /\ (file' # file /\ ~endswith(strip(file'[Len(file')]), <<";">>)) => index' = index
          /\ pc' = "indexed" =>
                /\ index' = index
                /\ index' = index_lines(<<>>, <<>>, TerminatedPrefix(file))
                /\ tables' = Keys(index)
                /\ \A i \in 1..Len(index') :
                      /\ index'[i].create \in {<<>>} \cup Range(DumpStatements(TerminatedPrefix(file)))
                      /\ Range(index'[i].inserts) \subseteq
                             Range(DumpStatements(TerminatedPrefix(file)))]_vars

\* the file ends in an unterminated CREATE TABLE statement for a table that an
\* earlier INSERT statement has put into the index, and the table has no create
\* statement
C30_Witness ==
    /\ pc = "indexed"
    /\ Len(file) >= 2
    /\ create_table_regex(strip(file[Len(file)])).some
    /\ ~endswith(strip(file[Len(file)]), <<";">>)
    /\ HasTable(index, create_table_regex(strip(file[Len(file)])).val)
    /\ \A i \in 1..Len(index) : index[i].create = <<>>

\* the fields of a row that carry data: neither empty nor null
DataFields(row) == {row[i] : i \in {k \in 1..Len(row) : row[k] # <<>> /\ lower_str(row[k]) # StrNull}}

\* C31: a row that repair returns has lost no data: every non-empty, non-null
\* field of the input row stands in the returned row.
C31_RepairKeepsEveryDataField ==
    (pc = "return" /\ ret.some) => DataFields(arg.bad_row_values) \subseteq Range(ret.val)
====
